---- MODULE Spec2Model ----
(***************************************************************************)
(* Reconciliation of a debtor extract against the remote CRM: the per-     *)
(* extract pass and the removal sweep of BusinessRulesProcessor and        *)
(* OptimizedBusinessRulesProcessor, the remote gateway's deal and person   *)
(* resources, and the SQLite audit ledger.                                 *)
(*                                                                         *)
(* A document is a small number standing for a canonical digit string; a   *)
(* deal's title is represented by the document it carries.  A person's id  *)
(* is its index in persons, a deal's id its index in deals.                *)
(***************************************************************************)
EXTENDS Integers, Sequences, FiniteSets, TLC

(* ---- bounds ---- *)
MaxDocs == 2
MaxDeals == 2
MaxSweepDeals == 1
MaxRuns == 2
MaxSaves == 3
MaxItens == 4        \* debtors of the extract of the pooled run
BatchSize == 3       \* batch_size of the pooled run
MaxWorkers == 2      \* max_concurrent_requests of the pooled run
MaxCalls == 2        \* remote calls one reconciliation may issue
RequestsPerMinute == 2   \* requests_per_minute of the rate limiter
MaxTicks == 4        \* readings of the clock after the first one
MaxRaw == 15         \* characters of the document field of the extract
MaxDias == 120       \* days overdue of the oldest instalment
MaxValor == 122      \* numbers handed to the formatting of a custom field
MaxLinhas == 3       \* lines of the extract file
MaxArquivos == 2
MaxDados == 5
MaxLote == 3
ItensArquivo == 12

(* ---- src/src/config.py ---- *)
PIPELINE_BASE_NOVA_SDR_ID == 14
PIPELINE_BASE_NOVA_NEGOCIACAO_ID == 15
PIPELINE_BASE_NOVA_FORMALIZACAO_ID == 17
PIPELINE_JUDICIAL_ID == 3
STAGE_NOVAS_COBRANCAS_ID == 110
STAGE_INICIAR_COBRANCA_ID == 115
STAGE_ENVIAR_MINUTA_BOLETO_ID == 124
STAGE_AGUARDANDO_PAGAMENTO_ID == 173
STAGE_ACOMPANHAMENTO_ACORDO_ID == 176
STAGE_BOLETO_PAGO_ID == 174

(* ---- RetrySystem(max_retries=3) (src/src/optimized_business_rules.py) ---- *)
max_retries == 3

(* ---- RateLimiter.wait_if_needed: seconds of its window and of its cooldown ---- *)
JANELA == 60
COOLDOWN == 120

(* ---- options of the TAG_ATRASO field and its threshold in days ---- *)
TAG_EVITAR_INAD == 121
TAG_EVITAR_PREJU == 122
LIMITE_DIAS == 90

(* ---- digits of a CPF and of a CNPJ (src/src/file_processor.py) ---- *)
CPF_LEN == 11
CNPJ_LEN == 14

(* A pipeline and a stage the configuration does not name. *)
OutrasBases == {1}
OutrasEtapas == {111}

Docs == 1 .. MaxDocs
Tipos == {"PF", "PJ"}
Tipo(d) == IF d % 2 = 1 THEN "PF" ELSE "PJ"

Pipelines ==
    {PIPELINE_BASE_NOVA_SDR_ID, PIPELINE_BASE_NOVA_NEGOCIACAO_ID,
     PIPELINE_BASE_NOVA_FORMALIZACAO_ID, PIPELINE_JUDICIAL_ID} \cup OutrasBases

etapas_excecao ==
    {STAGE_ENVIAR_MINUTA_BOLETO_ID, STAGE_AGUARDANDO_PAGAMENTO_ID,
     STAGE_ACOMPANHAMENTO_ACORDO_ID, STAGE_BOLETO_PAGO_ID}

Stages ==
    {STAGE_NOVAS_COBRANCAS_ID, STAGE_INICIAR_COBRANCA_ID} \cup etapas_excecao
        \cup OutrasEtapas

(* Stages drawn for the deals of the per-extract pass, which never reads a stage. *)
DebtorStages == {STAGE_NOVAS_COBRANCAS_ID, STAGE_AGUARDANDO_PAGAMENTO_ID}

Statuses == {"open", "won", "lost"}

base_nova_pipelines ==
    {PIPELINE_BASE_NOVA_SDR_ID, PIPELINE_BASE_NOVA_NEGOCIACAO_ID,
     PIPELINE_BASE_NOVA_FORMALIZACAO_ID}

(* The co-obligors the extract lists for a debtor: a company (PJ) carries the
   natural person numbered just before it. *)
avalistas_info(d) == IF Tipo(d) = "PJ" THEN <<d - 1>> ELSE <<>>

VARIABLES
    persons,    \* remote persons: persons[i] is the document of person i
    deals,      \* remote deals: deals[i] = [person, doc, short, pipeline_id, stage_id, status]
    extract,    \* documents of the current extract (inadimplentes_data)
    ledger,     \* entidades_devedores: the rows of the table, by id
    historico,  \* historico_alteracoes: the rows of the table
    remote,     \* "reliable", or "flaky" when requests may fail
    pc,         \* position of the run
    variant,    \* "primary" (BusinessRulesProcessor) or "optimized"
    run,        \* number of the run in progress
    todo,       \* documents of the extract still to reconcile in this run
    sweep,      \* deals the removal sweep still has to handle
    calls,      \* mutation calls issued by the last handler
    op,         \* what the last handler was and what it saw
    pre,        \* remote deals before the last handler
    snap,       \* remote deals at the end of the first run
    tasks,      \* pooled run: tasks[i] is the reconciliation task of debtor i
    should_stop,    \* pooled run: the stop flag
    lote,       \* pooled run: number of the batch in progress
    pipeline_ids,   \* pooled run: pipelines the sweep has still to fetch
    progresso,  \* pooled run: the calls of progress_callback, <<processed, total>>
    erros,      \* what the removal sweep appended to processing_stats['erros']
    now,        \* rate limiter: the clock, in seconds
    requests,   \* rate limiter: self.requests
    last_429_time,  \* rate limiter: self.last_429_time
    lock,       \* rate limiter: the thread holding self.lock, 0 when free
    thr,        \* rate limiter: thr[w] is where worker w is
    grants,     \* rate limiter: when wait_if_needed returned, last window only
    log_processamentos,     \* ledger: the rows of log_processamentos, by id
    current_processing_id,  \* the processor's current_processing_id, 0 for None
    retorno,    \* how the run came back to its caller, "none" while it runs
    entrada,    \* the arguments of the function under study
    saida,      \* what it returned, NoOut before the call
    bg,         \* the BackgroundProcessor, its state file and its run
    conn        \* ledger: conn[t] is the connection of thread t and its save

poolvars == <<tasks, should_stop, lote, pipeline_ids, progresso, erros>>
limvars == <<now, requests, last_429_time, lock, thr, grants>>
logvars == <<log_processamentos, current_processing_id, retorno>>
funvars == <<entrada, saida, bg, conn>>
runvars == <<persons, deals, extract, ledger, historico, remote, pc, variant, run, todo,
             sweep, calls, op, pre, snap>>

vars == <<persons, deals, extract, ledger, historico, remote, pc, variant, run, todo,
          sweep, calls, op, pre, snap, poolvars, limvars, logvars, funvars>>

NoOut == [kind |-> "none"]

(* processing_state = {}, and the state file when it does not exist. *)
Vazio == [existe |-> FALSE, txt_path |-> 0, last_processed_index |-> 0, status |-> "",
          arquivo |-> 0]

(* BackgroundProcessor.__init__ *)
BgIdle == [config_file |-> Vazio, processing_state |-> Vazio, st |-> "idle", txt_path |-> 0,
           start_index |-> 0, i |-> 0, processed_count |-> 0, should_stop |-> FALSE]

(* No function under study. *)
FunIdle == entrada = NoOut /\ saida = NoOut /\ bg = BgIdle /\ conn = <<>>

(* The run's log as the constructors leave it: no row, no current id. *)
LogIdle ==
    /\ log_processamentos = <<>> /\ current_processing_id = 0 /\ retorno = "none"
    /\ FunIdle

(* The rate limiter as RateLimiter.__init__ leaves it, no worker about. *)
LimiterIdle ==
    /\ now = 0 /\ requests = <<>> /\ last_429_time = 0 /\ lock = 0
    /\ thr = <<>> /\ grants = <<>>
    /\ LogIdle

(* The pooled run's state while no pooled run is in progress. *)
PoolIdle ==
    /\ tasks = <<>> /\ should_stop = FALSE /\ lote = 0 /\ pipeline_ids = <<>>
    /\ progresso = <<>> /\ erros = <<>>
    /\ LimiterIdle

NoOp == [kind |-> "none"]

(* ---- helpers ---- *)
Ids(n) == [i \in 1 .. n |-> i]
Range(s) == {s[i] : i \in DOMAIN s}
Prefixes(s) == {SubSeq(s, 1, k) : k \in 0 .. Len(s)}
Min(S) == CHOOSE x \in S : \A y \in S : x <= y

(* ---- the remote gateway ---- *)

(* A deal is [person, doc, pipeline_id, stage_id, status, short]: doc is the
   document its title carries (0 for a title without one) and short says that
   the title stores it without its leading zeros; the titles this program
   writes carry the document in full. *)

(* A mutation request: op names the client method, id the entity it targets;
   status = "" and pipeline_id, stage_id, title = 0 mean "key not sent". *)
Call(o, i, p, st, pl, sg, t, f) ==
    [op |-> o, id |-> i, person |-> p, status |-> st, pipeline_id |-> pl,
     stage_id |-> sg, title |-> t, fields |-> f]

(* What the remote does with PATCH deals/{id}: the keys sent overwrite. *)
PatchDeal(deal, c) ==
    [deal EXCEPT !.status = IF c.status # "" THEN c.status ELSE @,
                 !.pipeline_id = IF c.pipeline_id # 0 THEN c.pipeline_id ELSE @,
                 !.stage_id = IF c.stage_id # 0 THEN c.stage_id ELSE @,
                 !.doc = IF c.title # 0 THEN c.title ELSE @,
                 !.short = IF c.title # 0 THEN FALSE ELSE @]

(* The request of the fault's kind is rejected (error response or timeout). *)
Rejected(c, fault) ==
    \/ fault = c.op
    \/ fault = "update_deal" /\ c.op = "mark_deal_as_lost"

RECURSIVE RemoteDeals(_, _, _)
RemoteDeals(ds, cs, fault) ==
    IF cs = <<>> THEN ds
    ELSE LET c == Head(cs)
             nds == IF Rejected(c, fault) THEN ds
                    ELSE IF c.op \in {"update_deal", "mark_deal_as_lost"}
                         THEN [ds EXCEPT ![c.id] = PatchDeal(ds[c.id], c)]
                    ELSE IF c.op = "create_deal"
                         THEN Append(ds, [person |-> c.person, doc |-> c.title,
                                          pipeline_id |-> c.pipeline_id,
                                          stage_id |-> c.stage_id,
                                          status |-> "open", short |-> FALSE])
                    ELSE ds
         IN  RemoteDeals(nds, Tail(cs), fault)

RECURSIVE RemotePersons(_, _, _)
RemotePersons(ps, cs, fault) ==
    IF cs = <<>> THEN ps
    ELSE LET c == Head(cs)
             nps == IF c.op = "create_person" /\ ~Rejected(c, fault)
                    THEN Append(ps, c.title) ELSE ps
         IN  RemotePersons(nps, Tail(cs), fault)

(* search_person_by_document: the first person carrying the document, 0 when
   none is found; a failed search reports none as well. *)
search_person_by_document(ps, d, fault) ==
    LET hits == {i \in DOMAIN ps : ps[i] = d}
    IN  IF fault = "search" \/ hits = {} THEN 0 ELSE Min(hits)

(* get_deals_by_person: the ids of the person's deals, in id order. *)
get_deals_by_person(ds, p) ==
    SelectSeq(Ids(Len(ds)), LAMBDA i : ds[i].person = p)

(* search_deals_by_title / get_deals_by_pipeline *)
search_deals_by_title(ds, d) ==
    SelectSeq(Ids(Len(ds)), LAMBDA i : ds[i].doc = d)

get_deals_by_pipeline(ds, pl) ==
    SelectSeq(Ids(Len(ds)), LAMBDA i : ds[i].pipeline_id = pl)

(* _paginate_v2: a failed page ends the loop and the pages read so far are
   returned, so a failed listing yields a proper prefix of the full one. *)
paginate_v2(full, failed) ==
    IF failed /\ Len(full) > 0 THEN Prefixes(full) \ {full} ELSE {full}

(* ---- the audit ledger (utils/backup_sqlite.py) ---- *)

(* SELECT id, version FROM entidades_devedores WHERE documento = ? AND
   tipo_pessoa = ?, then fetchone: the id of the first such row, 0 for none.
   A row's id is its index in the table. *)
select_entidade(lg, documento, tipo_pessoa) ==
    LET hits == {i \in DOMAIN lg : lg[i].documento = documento
                                   /\ lg[i].tipo_pessoa = tipo_pessoa}
    IN  IF hits = {} THEN 0 ELSE Min(hits)

(* The early return of salvar_entidade_devedor. *)
dados_insuficientes(documento, tipo_pessoa, nome) ==
    documento = 0 \/ tipo_pessoa = "" \/ nome = ""

(* A save that skips the SELECT and always INSERTs. *)
salvar_sempre_insere(lg, documento, tipo_pessoa, person_id, org_id, deal_id, status_operacao, pipeline_atual, stage_atual) ==
    Append(lg, [documento |-> documento, tipo_pessoa |-> tipo_pessoa,
                version |-> 1,
                pipedrive_person_id |-> person_id,
                pipedrive_org_id |-> org_id,
                pipedrive_deal_id |-> deal_id,
                status_operacao |-> status_operacao,
                pipeline_atual |-> pipeline_atual,
                stage_atual |-> stage_atual])

(* salvar_entidade_devedor: UPDATE ... version = version + 1 of the row the
   SELECT found, INSERT with the column default version 1 when it found none. *)
salvar_entidade_devedor(lg, documento, tipo_pessoa, person_id, org_id, deal_id, status_operacao, pipeline_atual, stage_atual) ==
    LET id == select_entidade(lg, documento, tipo_pessoa)
        row == [documento |-> documento, tipo_pessoa |-> tipo_pessoa,
                version |-> IF id = 0 THEN 1 ELSE lg[id].version + 1,
                pipedrive_person_id |-> person_id,
                pipedrive_org_id |-> org_id,
                pipedrive_deal_id |-> deal_id,
                status_operacao |-> status_operacao,
                pipeline_atual |-> pipeline_atual,
                stage_atual |-> stage_atual]
    IN  IF id = 0 THEN Append(lg, row) ELSE [lg EXCEPT ![id] = row]

(* _salvar_historico, as salvar_entidade_devedor calls it: one row appended,
   'criado' after an INSERT and 'atualizado' after an UPDATE, with the row as
   it was before (here its version, 0 for none) in dados_anteriores. *)
salvar_historico(h, lg, documento, tipo_pessoa) ==
    LET id == select_entidade(lg, documento, tipo_pessoa)
    IN  Append(h, [entidade_id |-> IF id = 0 THEN Len(lg) + 1 ELSE id,
                   acao |-> IF id = 0 THEN "criado" ELSE "atualizado",
                   dados_anteriores |-> IF id = 0 THEN 0 ELSE lg[id].version])

RowsOf(lg, documento, tipo_pessoa) ==
    {i \in DOMAIN lg : lg[i].documento = documento
                       /\ lg[i].tipo_pessoa = tipo_pessoa}

(* ---- BusinessRulesProcessor: the per-extract pass ---- *)

(* is_related: the deal's title contains a variant of the debtor's document. *)
is_related(ds, i, d) == ds[i].doc = d

update_existing_entity_data(p, d) ==
    <<Call("update_person", p, 0, "", 0, 0, d, TRUE)>>

(* A move that sends the pipeline and the fields but not the stage and status. *)
move_deals_sem_etapa(outras, d) ==
    [k \in 1 .. Len(outras) |->
        Call("update_deal", outras[k], 0, "", PIPELINE_BASE_NOVA_SDR_ID, 0, d, TRUE)]

move_deals_to_base_nova_sdr(outras, d) ==
    [k \in 1 .. Len(outras) |->
        Call("update_deal", outras[k], 0, "open", PIPELINE_BASE_NOVA_SDR_ID,
             STAGE_NOVAS_COBRANCAS_ID, d, TRUE)]

apply_rules_to_base_nova_deals(ds, base, d) ==
    [k \in 1 .. Len(base) |->
        Call("update_deal", base[k], 0,
             IF ds[base[k]].status \in {"won", "lost"} THEN "open" ELSE "",
             0, 0, d, TRUE)]

(* _process_related_persons_for_organization: for each co-obligor, create the
   person when the search finds none, else relink it; both are skipped when
   the organization lookup finds nothing.  np counts the persons so far. *)
RECURSIVE process_related_persons_for_organization(_, _, _, _, _)
process_related_persons_for_organization(ps, np, avs, fault, org) ==
    IF avs = <<>> THEN <<>>
    ELSE LET a == Head(avs)
             found == search_person_by_document(ps, a, fault)
             c == IF org = "missing" THEN <<>>
                  ELSE IF found = 0
                       THEN <<Call("create_person", np + 1, 0, "", 0, 0, a, TRUE)>>
                  ELSE IF org = "unlinked"
                       THEN <<Call("update_person", found, 0, "", 0, 0, 0, FALSE)>>
                  ELSE <<>>
             created == c # <<>> /\ c[1].op = "create_person"
                            /\ fault # "create_person"
         IN  c \o process_related_persons_for_organization(
                    IF created THEN Append(ps, a) ELSE ps,
                    IF created THEN np + 1 ELSE np, Tail(avs), fault, org)

create_new_deal_for_existing_entity(ds, ps, p, d, fault, org) ==
    LET novo == Len(ds) + 1
        criar == Call("create_deal", novo, p, "open", PIPELINE_BASE_NOVA_SDR_ID,
                      STAGE_NOVAS_COBRANCAS_ID, d, FALSE)
    IN  IF fault = "create_deal" THEN <<criar>>
        ELSE <<criar, Call("update_deal", novo, 0, "", 0, 0, d, TRUE)>>
             \o (IF Tipo(d) = "PJ"
                 THEN process_related_persons_for_organization(
                          ps, Len(ps), avalistas_info(d), fault, org)
                 ELSE <<>>)

(* The three lists _handle_existing_person_from_txt splits the listing into. *)
negocios_judiciais(ds, listed, d) ==
    SelectSeq(listed, LAMBDA i : is_related(ds, i, d)
                                 /\ ds[i].pipeline_id = PIPELINE_JUDICIAL_ID)
negocios_base_nova(ds, listed, d) ==
    SelectSeq(listed, LAMBDA i : is_related(ds, i, d)
                                 /\ ds[i].pipeline_id \in base_nova_pipelines)
negocios_outras_bases(ds, listed, d) ==
    SelectSeq(listed, LAMBDA i : is_related(ds, i, d)
                                 /\ ds[i].pipeline_id # PIPELINE_JUDICIAL_ID
                                 /\ ds[i].pipeline_id \notin base_nova_pipelines)

(* A handler in which a Judicial deal suppresses everything else. *)
handle_existing_judicial_suprime(ds, ps, p, d, listed, fault, org) ==
    LET base == negocios_base_nova(ds, listed, d)
        outras == negocios_outras_bases(ds, listed, d)
    IN  IF negocios_judiciais(ds, listed, d) # <<>>
        THEN update_existing_entity_data(p, d)
        ELSE update_existing_entity_data(p, d)
             \o move_deals_to_base_nova_sdr(outras, d)
             \o apply_rules_to_base_nova_deals(ds, base, d)
             \o (IF base = <<>> /\ outras = <<>>
                 THEN create_new_deal_for_existing_entity(ds, ps, p, d, fault, org)
                 ELSE <<>>)

handle_existing_person_from_txt(ds, ps, p, d, listed, fault, org) ==
    LET base == negocios_base_nova(ds, listed, d)
        outras == negocios_outras_bases(ds, listed, d)
    IN  update_existing_entity_data(p, d)
        \o move_deals_to_base_nova_sdr(outras, d)
        \o apply_rules_to_base_nova_deals(ds, base, d)
        \o (IF base = <<>> /\ outras = <<>>
            THEN create_new_deal_for_existing_entity(ds, ps, p, d, fault, org)
            ELSE <<>>)

handle_new_person_from_txt_with_backup(ds, ps, d, fault) ==
    LET nova == Len(ps) + 1
        novo == Len(ds) + 1
        pessoa == Call("create_person", nova, 0, "", 0, 0, d, TRUE)
        negocio == Call("create_deal", novo, nova, "open",
                        PIPELINE_BASE_NOVA_SDR_ID, STAGE_NOVAS_COBRANCAS_ID,
                        d, FALSE)
    IN  IF fault = "create_person" THEN <<pessoa>>
        ELSE IF fault = "create_deal" THEN <<pessoa, negocio>>
        ELSE <<pessoa, negocio, Call("update_deal", novo, 0, "", 0, 0, d, TRUE)>>

(* ---- OptimizedBusinessRulesProcessor: the per-extract pass ---- *)

reopen_deal_to_novas_cobrancas_optimized(i) ==
    Call("update_deal", i, 0, "open", PIPELINE_BASE_NOVA_SDR_ID,
         STAGE_NOVAS_COBRANCAS_ID, 0, FALSE)

handle_existing_person_optimized(ds, listed) ==
    LET lost == SelectSeq(listed, LAMBDA i : ds[i].status = "lost")
    IN  [k \in 1 .. Len(lost) |-> reopen_deal_to_novas_cobrancas_optimized(lost[k])]

handle_new_person_optimized == <<>>

(* ---- one debtor of the per-extract pass ---- *)

(* The one request kind that fails during a handler, when the remote is flaky. *)
Faults ==
    {"none", "search", "list_ref", "list", "create_person", "create_deal",
     "update_deal"}
FaultsNow == IF remote = "flaky" THEN Faults ELSE {"none"}

(* What get_organization_by_id and the person's org_id say of the debtor. *)
Orgs == {"missing", "unlinked", "linked"}

(* _get_deals_for_entity of BusinessRulesProcessor. *)
get_deals_for_entity(ds, p, d, fault) ==
    IF Tipo(d) = "PF"
    THEN paginate_v2(get_deals_by_person(ds, p), fault = "list_ref")
    ELSE {IF fault = "list_ref" THEN <<>> ELSE search_deals_by_title(ds, d)}

Seen(kind, d, fault, p, listed) ==
    [kind |-> kind, doc |-> d, fault |-> fault, person |-> p,
     listed |-> listed, persons |-> persons, ledger |-> ledger]

(* _process_single_inadimplente_with_backup *)
process_single_inadimplente_with_backup(d, fault, org) ==
    LET p == search_person_by_document(persons, d, fault)
    IN  IF p # 0
        THEN \E negocios \in get_deals_for_entity(deals, p, d, fault),
                listed \in paginate_v2(get_deals_by_person(deals, p),
                                       fault = "list") :
               LET cs == handle_existing_person_from_txt(
                             deals, persons, p, d, listed, fault, org)
                   deal == IF negocios = <<>> THEN 0 ELSE negocios[1]
               IN  /\ calls' = cs
                   /\ deals' = RemoteDeals(deals, cs, fault)
                   /\ persons' = RemotePersons(persons, cs, fault)
                   /\ ledger' = salvar_entidade_devedor(
                          ledger, d, Tipo(d),
                          IF Tipo(d) = "PF" THEN p ELSE 0,
                          IF Tipo(d) = "PF" THEN 0 ELSE p,
                          deal, "atualizado",
                          IF deal = 0 THEN 0 ELSE deals[deal].pipeline_id,
                          IF deal = 0 THEN 0 ELSE deals[deal].stage_id)
                   /\ historico' = salvar_historico(historico, ledger, d, Tipo(d))
                   /\ op' = Seen("primary", d, fault, p, listed)
        ELSE LET cs == handle_new_person_from_txt_with_backup(
                           deals, persons, d, fault)
                 entity == IF fault = "create_person" THEN 0 ELSE Len(persons) + 1
                 deal == IF fault \in {"create_person", "create_deal"} THEN 0
                         ELSE Len(deals) + 1
             IN  /\ calls' = cs
                 /\ deals' = RemoteDeals(deals, cs, fault)
                 /\ persons' = RemotePersons(persons, cs, fault)
                 /\ ledger' = salvar_entidade_devedor(
                        ledger, d, Tipo(d),
                        IF Tipo(d) = "PF" THEN entity ELSE 0,
                        IF Tipo(d) = "PF" THEN 0 ELSE entity,
                        deal, "criado",
                        IF entity = 0 THEN 0 ELSE PIPELINE_BASE_NOVA_SDR_ID,
                        IF entity = 0 THEN 0 ELSE STAGE_NOVAS_COBRANCAS_ID)
                 /\ historico' = salvar_historico(historico, ledger, d, Tipo(d))
                 /\ op' = Seen("primary", d, fault, 0, <<>>)

(* _process_single_inadimplente_optimized.  _save_to_backup hands entity_id,
   deal_id and status to salvar_entidade_devedor by position, so they land in
   pipedrive_person_id, pipedrive_org_id and pipedrive_deal_id, and
   status_operacao keeps its default; nothing is saved without an entity_id. *)
process_single_inadimplente_optimized(d, fault) ==
    LET p == search_person_by_document(persons, d, fault)
    IN  IF p # 0
        THEN \E negocios \in paginate_v2(get_deals_by_person(deals, p),
                                         fault = "list_ref"),
                listed \in paginate_v2(get_deals_by_person(deals, p),
                                       fault = "list") :
               LET cs == handle_existing_person_optimized(deals, listed)
                   deal == IF negocios = <<>> THEN 0 ELSE negocios[1]
               IN  /\ calls' = cs
                   /\ deals' = RemoteDeals(deals, cs, fault)
                   /\ persons' = RemotePersons(persons, cs, fault)
                   /\ ledger' = salvar_entidade_devedor(
                          ledger, d, Tipo(d), p, deal, "atualizado", "criado",
                          0, 0)
                   /\ historico' = salvar_historico(historico, ledger, d, Tipo(d))
                   /\ op' = Seen("optimized", d, fault, p, listed)
        ELSE /\ calls' = handle_new_person_optimized
             /\ UNCHANGED <<deals, persons, ledger, historico>>
             /\ op' = Seen("optimized", d, fault, 0, <<>>)

(* The loop of process_inadimplentes_from_txt takes the debtors in order. *)
ProcessDebtorPrimary ==
    /\ pc = "extract" /\ variant = "primary" /\ todo # {}
    /\ \E fault \in FaultsNow, org \in Orgs :
          process_single_inadimplente_with_backup(Min(todo), fault, org)
    /\ pre' = deals
    /\ todo' = todo \ {Min(todo)}
    /\ pc' = IF todo' = {} THEN "fetch" ELSE "extract"
    /\ UNCHANGED poolvars
    /\ UNCHANGED limvars
    /\ UNCHANGED logvars
    /\ UNCHANGED funvars
    /\ UNCHANGED <<extract, remote, variant, run, sweep, snap>>

(* The workers of _process_batch_parallel take them in any order. *)
ProcessDebtorOptimized ==
    /\ pc = "extract" /\ variant = "optimized" /\ todo # {}
    /\ \E d \in todo :
          /\ \E fault \in FaultsNow : process_single_inadimplente_optimized(d, fault)
          /\ todo' = todo \ {d}
    /\ pre' = deals
    /\ pc' = IF todo' = {} THEN "fetch" ELSE "extract"
    /\ UNCHANGED poolvars
    /\ UNCHANGED limvars
    /\ UNCHANGED logvars
    /\ UNCHANGED funvars
    /\ UNCHANGED <<extract, remote, variant, run, sweep, snap>>

(* ---- the removal sweep ---- *)

(* Digit strings are [val, len]: the number they spell and how many digits
   they have.  A document d of the extract spells the number d in 11 digits
   (PF) or 14 digits (PJ). *)
RECURSIVE Digits(_)
Digits(n) == IF n < 10 THEN 1 ELSE 1 + Digits(n \div 10)

zfill(x, width) == [val |-> x.val, len |-> IF x.len < width THEN width ELSE x.len]
last_digits(x, k) == [val |-> x.val % (10 ^ k), len |-> IF x.len < k THEN x.len ELSE k]

cpf_cnpj(d) == [val |-> d, len |-> IF Tipo(d) = "PF" THEN CPF_LEN ELSE CNPJ_LEN]

(* The digits in front of ' - ' in a deal's title. *)
titulo_digitos(deal) ==
    [val |-> deal.doc,
     len |-> IF deal.doc = 0 THEN 0
             ELSE IF deal.short THEN Digits(deal.doc)
             ELSE cpf_cnpj(deal.doc).len]

(* _extract_document_from_title: '' for a title without digits, else zfill(11)
   up to 11 digits, zfill(14) up to 14, the last 11 digits beyond. *)
extract_document_from_title(deal) ==
    LET documento == titulo_digitos(deal)
    IN  IF documento.len = 0 THEN documento
        ELSE IF documento.len <= CPF_LEN THEN zfill(documento, CPF_LEN)
        ELSE IF documento.len <= CNPJ_LEN THEN zfill(documento, CNPJ_LEN)
        ELSE zfill(last_digits(documento, CPF_LEN), CPF_LEN)

(* The set process_inadimplentes_from_txt builds from the extract. *)
documentos_txt(ex) == {<<Tipo(d), cpf_cnpj(d)>> : d \in ex}

(* tipo_pessoa as the sweep derives it from the length of the document. *)
tipo_por_tamanho(documento) ==
    IF documento.len = CPF_LEN THEN "PF"
    ELSE IF documento.len = CNPJ_LEN THEN "PJ" ELSE "INDEFINIDO"

Fetched(ds, ids) ==
    [k \in 1 .. Len(ids) |->
        [id |-> ids[k], doc |-> ds[ids[k]].doc, short |-> ds[ids[k]].short,
         pipeline_id |-> ds[ids[k]].pipeline_id,
         stage_id |-> ds[ids[k]].stage_id, status |-> ds[ids[k]].status]]

(* _get_all_deals_in_base_nova_pipelines: SDR and NEGOCIACAO only. *)
get_all_deals_in_base_nova_pipelines(ds, fault) ==
    {a \o b :
        a \in paginate_v2(get_deals_by_pipeline(ds, PIPELINE_BASE_NOVA_SDR_ID),
                          fault = "list"),
        b \in paginate_v2(get_deals_by_pipeline(ds, PIPELINE_BASE_NOVA_NEGOCIACAO_ID),
                          fault = "list")}

(* _get_all_deals_in_base_nova_pipelines_optimized: the three BASE NOVA pipelines. *)
get_all_deals_in_base_nova_pipelines_optimized(ds, fault) ==
    {a \o b \o c :
        a \in paginate_v2(get_deals_by_pipeline(ds, PIPELINE_BASE_NOVA_SDR_ID),
                          fault = "list"),
        b \in paginate_v2(get_deals_by_pipeline(ds, PIPELINE_BASE_NOVA_NEGOCIACAO_ID),
                          fault = "list"),
        c \in paginate_v2(get_deals_by_pipeline(ds, PIPELINE_BASE_NOVA_FORMALIZACAO_ID),
                          fault = "list")}

(* The filter of _process_removed_documents_from_txt: deals whose title carries
   a document that is not in documentos_txt. *)
deals_to_process(all_deals, docs_txt) ==
    SelectSeq(all_deals, LAMBDA x :
        LET documento == extract_document_from_title(x)
        IN  /\ documento.len # 0
            /\ <<tipo_por_tamanho(documento), documento>> \notin docs_txt)

mark_deal_as_lost(i) == Call("mark_deal_as_lost", i, 0, "lost", 0, 0, 0, FALSE)

reopen_deal_to_iniciar_cobranca(i, target_pipeline_id) ==
    Call("update_deal", i, 0, "open",
         IF target_pipeline_id \in {PIPELINE_BASE_NOVA_SDR_ID,
                                    PIPELINE_BASE_NOVA_NEGOCIACAO_ID}
         THEN target_pipeline_id ELSE PIPELINE_BASE_NOVA_SDR_ID,
         STAGE_INICIAR_COBRANCA_ID, 0, FALSE)

(* Removal rules without the exception stages. *)
apply_removal_rules_sem_excecao(deal) ==
    IF deal.pipeline_id = PIPELINE_JUDICIAL_ID THEN <<>>
    ELSE IF deal.pipeline_id = PIPELINE_BASE_NOVA_FORMALIZACAO_ID THEN <<>>
    ELSE IF deal.status = "lost"
         THEN <<reopen_deal_to_iniciar_cobranca(deal.id, deal.pipeline_id)>>
    ELSE <<mark_deal_as_lost(deal.id)>>

apply_removal_rules(deal) ==
    IF deal.pipeline_id = PIPELINE_JUDICIAL_ID THEN <<>>
    ELSE IF deal.pipeline_id = PIPELINE_BASE_NOVA_FORMALIZACAO_ID THEN <<>>
    ELSE IF deal.pipeline_id \in {PIPELINE_BASE_NOVA_SDR_ID,
                                  PIPELINE_BASE_NOVA_NEGOCIACAO_ID}
    THEN IF deal.stage_id \in etapas_excecao THEN <<>>
         ELSE IF deal.status = "lost"
              THEN <<reopen_deal_to_iniciar_cobranca(deal.id, deal.pipeline_id)>>
         ELSE <<mark_deal_as_lost(deal.id)>>
    ELSE IF deal.status = "lost"
         THEN <<reopen_deal_to_iniciar_cobranca(deal.id, PIPELINE_BASE_NOVA_SDR_ID)>>
    ELSE <<mark_deal_as_lost(deal.id)>>

(* Optimized removal rules that protect the Judicial pipeline only. *)
apply_removal_rules_so_judicial(deal) ==
    IF deal.pipeline_id = PIPELINE_JUDICIAL_ID THEN <<>>
    ELSE IF deal.pipeline_id \in {PIPELINE_BASE_NOVA_SDR_ID,
                                  PIPELINE_BASE_NOVA_NEGOCIACAO_ID}
            /\ deal.stage_id \in etapas_excecao
    THEN <<>>
    ELSE <<mark_deal_as_lost(deal.id)>>

apply_removal_rules_optimized(deal) ==
    IF deal.pipeline_id = PIPELINE_JUDICIAL_ID THEN <<>>
    ELSE IF deal.pipeline_id = PIPELINE_BASE_NOVA_FORMALIZACAO_ID THEN <<>>
    ELSE IF deal.pipeline_id \in {PIPELINE_BASE_NOVA_SDR_ID,
                                  PIPELINE_BASE_NOVA_NEGOCIACAO_ID}
    THEN IF deal.stage_id \in etapas_excecao THEN <<>>
         ELSE <<mark_deal_as_lost(deal.id)>>
    ELSE <<mark_deal_as_lost(deal.id)>>

(* _process_removed_documents_from_txt_optimized: batch_size = min(50, len(deals_to_process)) *)
LOTE_REMOCAO == 50
removal_batch_size(n) == IF n < LOTE_REMOCAO THEN n ELSE LOTE_REMOCAO

(* _create_batches: range(0, len(data), batch_size) raises ValueError on a
   step of zero, whatever the length of data. *)
create_batches_raises(n, batch_size) == batch_size = 0

(* What the sweep's except appends to processing_stats['erros'] once the
   selection of n deals is made. *)
erros_remocao(n) ==
    IF create_batches_raises(n, removal_batch_size(n)) THEN <<"Erro no processamento de remocao">>
    ELSE <<>>

(* The fetch that opens _process_removed_documents_from_txt and its optimized
   twin, with the filter on the extract's documents; the optimized twin then
   cuts its selection into batches. *)
FetchRemoved ==
    /\ pc = "fetch"
    /\ \E fault \in FaultsNow \cap {"none", "list"} :
         \E ids \in (IF variant = "primary"
                     THEN get_all_deals_in_base_nova_pipelines(deals, fault)
                     ELSE get_all_deals_in_base_nova_pipelines_optimized(deals, fault)) :
            sweep' = deals_to_process(Fetched(deals, ids), documentos_txt(extract))
    /\ erros' = IF variant = "optimized" THEN erros \o erros_remocao(Len(sweep')) ELSE erros
    /\ pc' = "sweep"
    /\ UNCHANGED <<tasks, should_stop, lote, pipeline_ids, progresso>>
    /\ UNCHANGED limvars
    /\ UNCHANGED logvars
    /\ UNCHANGED funvars
    /\ UNCHANGED <<persons, deals, extract, ledger, historico, remote, variant,
                   run, todo, calls, op, pre, snap>>

(* One turn of the sweep's loop: the removal rules on the next fetched deal. *)
RemovalStep ==
    /\ pc = "sweep" /\ sweep # <<>>
    /\ \E fault \in FaultsNow \cap {"none", "update_deal"} :
         LET deal == Head(sweep)
             cs == IF variant = "primary" THEN apply_removal_rules(deal)
                   ELSE apply_removal_rules_optimized(deal)
         IN  /\ calls' = cs
             /\ deals' = RemoteDeals(deals, cs, fault)
             /\ op' = [kind |-> "removal", variant |-> variant, deal |-> deal,
                       fault |-> fault]
    /\ pre' = deals
    /\ sweep' = Tail(sweep)
    /\ UNCHANGED poolvars
    /\ UNCHANGED limvars
    /\ UNCHANGED logvars
    /\ UNCHANGED funvars
    /\ UNCHANGED <<persons, extract, ledger, historico, remote, pc, variant,
                   run, todo, snap>>

(* The run ends when the sweep is through; the same extract is then run again. *)
FinishRun ==
    /\ pc = "sweep" /\ sweep = <<>>
    /\ IF run < MaxRuns
       THEN /\ run' = run + 1 /\ pc' = "extract" /\ todo' = extract
            /\ snap' = IF run = 1 THEN deals ELSE snap
       ELSE /\ pc' = "done" /\ UNCHANGED <<run, todo, snap>>
    /\ op' = [kind |-> "finish", run |-> run]
    /\ UNCHANGED poolvars
    /\ UNCHANGED limvars
    /\ UNCHANGED logvars
    /\ UNCHANGED funvars
    /\ UNCHANGED <<persons, deals, extract, ledger, historico, remote, variant,
                   sweep, calls, pre>>

(* ---- the ledger on its own ---- *)

(* The saves committed so far: every INSERT starts a row at version 1 and every
   UPDATE adds one to it. *)
RECURSIVE saves(_)
saves(lg) == IF lg = <<>> THEN 0 ELSE lg[1].version + saves(Tail(lg))

(* One call of salvar_entidade_devedor with any inadimplente: the early return
   on missing data, the INSERT or UPDATE with its history row, or the rollback
   of the except branch; an error of the INSERT into historico_alteracoes is
   caught inside _salvar_historico and the save is committed without it. *)
SalvarEntidade ==
    /\ pc = "ledger" /\ saves(ledger) < MaxSaves
    /\ \E documento \in Docs \cup {0}, tipo_pessoa \in Tipos \cup {""},
          nome \in {"", "nome"}, person_id \in 0 .. 1, erro \in BOOLEAN,
          erro_historico \in BOOLEAN :
          LET ok == ~dados_insuficientes(documento, tipo_pessoa, nome) /\ ~erro
              id == select_entidade(ledger, documento, tipo_pessoa)
          IN  /\ ledger' = IF ok
                           THEN salvar_entidade_devedor(
                                    ledger, documento, tipo_pessoa, person_id, 0,
                                    0, "criado", 0, 0)
                           ELSE ledger
              /\ historico' = IF ok /\ ~erro_historico
                              THEN salvar_historico(historico, ledger, documento,
                                                    tipo_pessoa)
                              ELSE historico
              /\ op' = [kind |-> "salvar", documento |-> documento,
                        tipo_pessoa |-> tipo_pessoa, ok |-> ok,
                        historico_antes |-> historico,
                        version_antes |-> IF id = 0 THEN 0 ELSE ledger[id].version,
                        linhas_antes |-> Len(ledger)]
    /\ UNCHANGED poolvars
    /\ UNCHANGED limvars
    /\ UNCHANGED logvars
    /\ UNCHANGED funvars
    /\ UNCHANGED <<persons, deals, extract, remote, pc, variant, run, todo,
                   sweep, calls, pre, snap>>

(* ---- OptimizedBusinessRulesProcessor: batches, worker pool, stop flag ---- *)

(* The pooled run reconciles debtors 1 .. MaxItens.  What one reconciliation
   does to the remote is the per-extract pass above; here a reconciliation is
   the remote calls it starts, and the remote answers each call or fails it
   transiently (timeout, connection error, 5xx, 429). *)
Itens == 1 .. MaxItens

Respostas == IF remote = "flaky" THEN {"ok", "transient"} ELSE {"ok"}

(* _create_batches: the batch (from 1) item i falls in. *)
create_batches(i) == ((i - 1) \div BatchSize) + 1

IdleTask == [st |-> "unsubmitted", tokens |-> 0, calls |-> 0, falha |-> FALSE, raised |-> FALSE, erro |-> FALSE]

(* Tasks a pool thread is running, and tasks submitted and not finished. *)
Executing(ts) == {i \in DOMAIN ts : ts[i].st \in {"limiter", "running", "saving"}}
Pending(ts) == {i \in DOMAIN ts : ts[i].st \in {"queued", "limiter", "running", "saving"}}

(* Tasks inside salvar_entidade_devedor. *)
Saving(ts) == {i \in DOMAIN ts : ts[i].st = "saving"}

(* What a remote call leaves in op. *)
RemoteCall(by, tokens, n) == [kind |-> "call", by |-> by, stop |-> should_stop, tokens |-> tokens, calls |-> n, pending |-> Pending(tasks), lote |-> lote]

(* _process_in_batches: the head of its loop over the batches. *)
NextBatch ==
    /\ pc = "lote"
    /\ pc' = IF should_stop \/ lote > create_batches(MaxItens) THEN "fetch" ELSE "submit"
    /\ UNCHANGED limvars
    /\ UNCHANGED logvars
    /\ UNCHANGED funvars
    /\ UNCHANGED <<persons, deals, extract, ledger, historico, remote, variant, run,
                   todo, sweep, calls, op, pre, snap, poolvars>>

(* _process_batch_parallel: one turn of the loop that submits the batch. *)
Submit ==
    /\ pc = "submit"
    /\ LET rest == {i \in Itens : create_batches(i) = lote /\ tasks[i].st = "unsubmitted"}
       IN  IF should_stop \/ rest = {}
           THEN pc' = "collect" /\ UNCHANGED tasks
           ELSE tasks' = [tasks EXCEPT ![Min(rest)].st = "queued"] /\ UNCHANGED pc
    /\ UNCHANGED limvars
    /\ UNCHANGED logvars
    /\ UNCHANGED funvars
    /\ UNCHANGED <<persons, deals, extract, ledger, historico, remote, variant, run,
                   todo, sweep, calls, op, pre, snap, should_stop, lote, pipeline_ids,
                   progresso, erros>>

(* Leaving the `with ThreadPoolExecutor` block: shutdown(wait=True) returns
   when every submitted task has finished. *)
executor_shutdown_sem_espera(ts) == TRUE
executor_shutdown(ts) == Pending(ts) = {}

(* _process_in_batches: processed_count += len(batch) *)
processed_count_sem_soma(count, batch) == Cardinality(batch)
processed_count(count, batch) == count + Cardinality(batch)

(* _process_batch_parallel: collecting the results and leaving the block;
   breaking out of as_completed on the stop flag still waits at the exit.
   Back in _process_in_batches the batch is counted and progress_callback is
   called with the count and the length of the extract. *)
Collect ==
    /\ pc = "collect" /\ executor_shutdown(tasks)
    /\ lote' = lote + 1 /\ pc' = "lote"
    /\ LET batch == {i \in Itens : create_batches(i) = lote}
           count == IF progresso = <<>> THEN 0 ELSE progresso[Len(progresso)][1]
       IN  progresso' = Append(progresso, <<processed_count(count, batch), MaxItens>>)
    /\ UNCHANGED limvars
    /\ UNCHANGED logvars
    /\ UNCHANGED funvars
    /\ UNCHANGED <<persons, deals, extract, ledger, historico, remote, variant, run,
                   todo, sweep, calls, op, pre, snap, tasks, should_stop, pipeline_ids,
                   erros>>

(* ThreadPoolExecutor(max_workers): a thread is free for the next task. *)
worker_free_sem_limite(ts) == TRUE
worker_free(ts) == Cardinality(Executing(ts)) < MaxWorkers

(* A pool thread takes the oldest queued task and enters
   _process_single_item_with_retry. *)
WorkerStart ==
    /\ \E i \in Itens :
         /\ tasks[i].st = "queued"
         /\ \A j \in Itens : tasks[j].st = "queued" => i <= j
         /\ worker_free(tasks)
         /\ tasks' = [tasks EXCEPT ![i].st = "limiter"]
    /\ UNCHANGED limvars
    /\ UNCHANGED logvars
    /\ UNCHANGED funvars
    /\ UNCHANGED <<persons, deals, extract, ledger, historico, remote, pc, variant, run,
                   todo, sweep, calls, op, pre, snap, should_stop, lote, pipeline_ids,
                   progresso, erros>>

(* _process_single_item_with_retry: rate_limiter.wait_if_needed() returns. *)
TaskAcquire ==
    /\ \E i \in Itens :
         /\ tasks[i].st = "limiter"
         /\ tasks' = [tasks EXCEPT ![i].st = "running", ![i].tokens = @ + 1]
    /\ UNCHANGED limvars
    /\ UNCHANGED logvars
    /\ UNCHANGED funvars
    /\ UNCHANGED <<persons, deals, extract, ledger, historico, remote, pc, variant, run,
                   todo, sweep, calls, op, pre, snap, should_stop, lote, pipeline_ids,
                   progresso, erros>>

(* _process_single_inadimplente_optimized starts its next remote call
   (search, listing, update). *)
TaskCall ==
    /\ \E i \in Itens, resp \in Respostas :
         /\ tasks[i].st = "running" /\ tasks[i].calls < MaxCalls
         /\ tasks' = [tasks EXCEPT ![i].calls = @ + 1,
                                   ![i].falha = @ \/ resp = "transient"]
         /\ op' = RemoteCall(i, tasks[i].tokens, tasks[i].calls + 1)
    /\ UNCHANGED limvars
    /\ UNCHANGED logvars
    /\ UNCHANGED funvars
    /\ UNCHANGED <<persons, deals, extract, ledger, historico, remote, pc, variant, run,
                   todo, sweep, calls, pre, snap, should_stop, lote, pipeline_ids,
                   progresso, erros>>

(* _process_single_inadimplente_optimized, the person found: after its remote
   calls the worker's own thread enters _save_to_backup and, in it,
   salvar_entidade_devedor, which opens a connection of its own.  What the
   save writes is in the per-extract pass above; here it is the time the
   worker spends inside it. *)
TaskSave ==
    /\ \E i \in Itens :
         /\ tasks[i].st = "running" /\ tasks[i].calls >= 1
         /\ tasks' = [tasks EXCEPT ![i].st = "saving"]
    /\ UNCHANGED limvars
    /\ UNCHANGED logvars
    /\ UNCHANGED funvars
    /\ UNCHANGED <<persons, deals, extract, ledger, historico, remote, pc, variant, run,
                   todo, sweep, calls, op, pre, snap, should_stop, lote, pipeline_ids,
                   progresso, erros>>

(* Whether an exception raised inside _process_single_inadimplente_optimized
   leaves it: its try/except turns every exception into an entry of 'erros'. *)
process_item_raises(raised) == FALSE

(* RetrySystem.execute_with_retry: the attempts it makes of a function. *)
execute_with_retry(raises) == IF raises THEN max_retries + 1 ELSE 1

(* What the run keeps of a task that raised: the error is recorded by the
   task itself (or by the except around future.result()) and the run goes on. *)
future_result_propaga(raised) == [erro |-> FALSE, abort |-> raised]
future_result(raised) == [erro |-> raised, abort |-> FALSE]

(* The task returns: normally after its calls and its save, if any, or on an
   exception. *)
TaskEnd ==
    /\ \E i \in Itens, raised \in BOOLEAN, erro \in BOOLEAN :
         LET r == future_result(raised)
         IN  /\ tasks[i].st \in {"running", "saving"}
             /\ tasks[i].calls >= 1 \/ raised
             /\ tasks' = [tasks EXCEPT ![i] = [IdleTask EXCEPT !.st = "done",
                                                  !.raised = raised,
                                                  !.erro = r.erro \/ erro]]
             /\ op' = [kind |-> "end", by |-> i, raised |-> raised,
                       falha |-> tasks[i].falha, erro |-> r.erro \/ erro,
                       tentativas |-> execute_with_retry(process_item_raises(raised))]
             /\ pc' = IF r.abort THEN "done" ELSE pc
    /\ UNCHANGED limvars
    /\ UNCHANGED logvars
    /\ UNCHANGED funvars
    /\ UNCHANGED <<persons, deals, extract, ledger, historico, remote, variant, run,
                   todo, sweep, calls, pre, snap, should_stop, lote, pipeline_ids,
                   progresso, erros>>

(* stop_processing, called from the interface's thread. *)
stop_processing ==
    /\ pc # "done" /\ ~should_stop
    /\ should_stop' = TRUE
    /\ UNCHANGED limvars
    /\ UNCHANGED logvars
    /\ UNCHANGED funvars
    /\ UNCHANGED <<persons, deals, extract, ledger, historico, remote, pc, variant, run,
                   todo, sweep, calls, op, pre, snap, tasks, lote, pipeline_ids,
                   progresso, erros>>

(* _get_all_deals_in_base_nova_pipelines_optimized: wait_if_needed and the
   listing of the next pipeline; after the last one the sweep filters what it
   fetched, and an empty selection ends the sweep (batch_size = 0 makes
   _create_batches raise, which the sweep's except records). *)
SweepFetch ==
    /\ pc = "fetch" /\ pipeline_ids # <<>>
    /\ op' = RemoteCall(0, 1, 1)
    /\ pipeline_ids' = Tail(pipeline_ids)
    /\ IF Len(pipeline_ids) = 1
       THEN \E k \in 0 .. MaxSweepDeals :
                /\ sweep' = [j \in 1 .. k |-> j]
                /\ erros' = erros \o erros_remocao(k)
                /\ pc' = IF k = 0 THEN "done" ELSE "sweep"
       ELSE UNCHANGED <<sweep, pc, erros>>
    /\ UNCHANGED limvars
    /\ UNCHANGED logvars
    /\ UNCHANGED funvars
    /\ UNCHANGED <<persons, deals, extract, ledger, historico, remote, variant, run,
                   todo, calls, pre, snap, tasks, should_stop, lote, progresso>>

(* _process_removed_documents_from_txt_optimized: one turn of its loop:
   the stop flag, wait_if_needed, the removal rules' update. *)
SweepItem ==
    /\ pc = "sweep"
    /\ IF should_stop \/ sweep = <<>>
       THEN pc' = "done" /\ UNCHANGED <<sweep, op>>
       ELSE sweep' = Tail(sweep) /\ op' = RemoteCall(0, 1, 1) /\ UNCHANGED pc
    /\ UNCHANGED limvars
    /\ UNCHANGED logvars
    /\ UNCHANGED funvars
    /\ UNCHANGED <<persons, deals, extract, ledger, historico, remote, variant, run,
                   todo, calls, pre, snap, poolvars>>

(* ---- RateLimiter: the workers that share it ---- *)

Workers == 1 .. MaxWorkers

(* One reading of the clock to the next: half a window. *)
Tick == JANELA \div 2
MaxTime == COOLDOWN + MaxTicks * Tick

IdleThread == [st |-> "idle", now |-> 0, wake |-> 0, visto |-> 0]

(* wait_if_needed: the seconds to sleep after a recent 429. *)
cooldown_sleep(t, last) == IF t - last < COOLDOWN THEN COOLDOWN - (t - last) ELSE 0

(* wait_if_needed: the requests kept, those of the last minute before t. *)
recent(reqs, t) == SelectSeq(reqs, LAMBDA r : t - r < JANELA)

(* The latest 429 any worker has observed, 0 when none has. *)
RECURSIVE MaxVisto(_, _)
MaxVisto(t, ws) ==
    IF ws = {} THEN 0
    ELSE LET w == CHOOSE x \in ws : TRUE
             m == MaxVisto(t, ws \ {w})
         IN  IF t[w].visto > m THEN t[w].visto ELSE m

(* time.time() moves on. *)
ClockTick ==
    /\ now < MaxTime
    /\ now' = now + Tick
    /\ UNCHANGED logvars
    /\ UNCHANGED funvars
    /\ UNCHANGED <<persons, deals, extract, ledger, historico, remote, pc, variant, run,
                   todo, sweep, calls, op, pre, snap, poolvars, requests,
                   last_429_time, lock, thr, grants>>

(* wait_if_needed up to its return or its first sleep: the worker takes the
   lock and reads the clock; the cooldown of a recent 429, if any, is slept
   out; the requests older than a minute at that reading are dropped; with the
   quota used up the worker sleeps until the oldest one is a minute old.  With
   nothing to sleep it records the reading and returns. *)
WaitEnter ==
    /\ \E w \in Workers :
         LET kept == recent(requests, now)
             full == Len(kept) >= RequestsPerMinute
             sleep_time == cooldown_sleep(now, last_429_time)
                               + (IF full THEN JANELA - (now - kept[1]) ELSE 0)
         IN  /\ thr[w].st = "idle" /\ lock = 0
             /\ IF sleep_time > 0
                THEN /\ lock' = w
                     /\ requests' = IF full THEN <<>> ELSE kept
                     /\ thr' = [thr EXCEPT ![w].st = "sleeping", ![w].now = now,
                                           ![w].wake = now + sleep_time]
                     /\ UNCHANGED grants
                ELSE /\ requests' = Append(kept, now)
                     /\ thr' = [thr EXCEPT ![w].st = "granted", ![w].now = now]
                     /\ grants' = Append(recent(grants, now), now)
                     /\ UNCHANGED lock
    /\ UNCHANGED logvars
    /\ UNCHANGED funvars
    /\ UNCHANGED <<persons, deals, extract, ledger, historico, remote, pc, variant, run,
                   todo, sweep, calls, op, pre, snap, poolvars, now, last_429_time>>

(* wait_if_needed: the sleep is over: the reading taken on entry is recorded
   (in the list emptied after a sleep for the quota) and the call returns. *)
WaitLeave ==
    /\ \E w \in Workers :
         /\ thr[w].st = "sleeping" /\ now >= thr[w].wake
         /\ requests' = Append(requests, thr[w].now)
         /\ thr' = [thr EXCEPT ![w].st = "granted"]
         /\ lock' = 0
         /\ grants' = Append(recent(grants, now), now)
    /\ UNCHANGED logvars
    /\ UNCHANGED funvars
    /\ UNCHANGED <<persons, deals, extract, ledger, historico, remote, pc, variant, run,
                   todo, sweep, calls, op, pre, snap, poolvars, now, last_429_time>>

(* The worker issues its remote call; the remote answers it or refuses it
   with 429, which _make_request hands back as a failed answer: nothing calls
   handle_429_error, and last_429_time stays as it is. *)
WorkerCall ==
    /\ \E w \in Workers, resp \in {"ok", "429"} :
         /\ thr[w].st = "granted"
         /\ thr' = [thr EXCEPT ![w].st = "idle",
                               ![w].visto = IF resp = "429" THEN now ELSE @]
         /\ op' = [kind |-> "call", by |-> w, at |-> now,
                   visto |-> MaxVisto(thr, Workers), stop |-> FALSE,
                   tokens |-> 1, calls |-> 1]
    /\ UNCHANGED logvars
    /\ UNCHANGED funvars
    /\ UNCHANGED <<persons, deals, extract, ledger, historico, remote, pc, variant, run,
                   todo, sweep, calls, pre, snap, poolvars, now, requests,
                   last_429_time, lock, grants>>

(* ---- one run and its row of log_processamentos ---- *)

(* What the run has done so far, kept in op: the fatal error it met, whether
   the stop flag cut it short and how many ledger rows stood then, whether it
   issued a remote mutation, and how often it called finalizar_processamento
   on the row it opened. *)
RunOp == [kind |-> "run", fatal |-> "none", cortado |-> FALSE, salvas |-> 0, mutou |-> FALSE, finalizacoes |-> 0]

(* BackupSQLite.iniciar_processamento: the rows after it and the id it
   returns; on an error of the database it logs and returns 0. *)
iniciar_processamento(lg, falha) == IF falha THEN [rows |-> lg, id |-> 0] ELSE [rows |-> Append(lg, [status |-> "processando", mensagem_erro |-> ""]), id |-> Len(lg) + 1]

(* BackupSQLite.finalizar_processamento: an UPDATE of the row of that id; an
   error of the database is logged and swallowed. *)
finalizar_processamento(lg, id, status, mensagem_erro, falha) == IF falha \/ id \notin DOMAIN lg THEN lg ELSE [lg EXCEPT ![id] = [status |-> status, mensagem_erro |-> mensagem_erro]]

(* process_txt_file_direct: the extract is read and has debtors, or has none,
   or cannot be read and the reader raises. *)
ReadExtract ==
    /\ pc = "start"
    /\ \E leitura \in {"ok", "vazio", "erro"} :
         /\ pc' = CASE leitura = "ok" -> "iniciar"
                    [] leitura = "vazio" -> "done"
                    [] leitura = "erro" -> "except"
         /\ retorno' = IF leitura = "vazio" THEN "stats" ELSE retorno
         /\ todo' = IF leitura = "ok" THEN extract ELSE {}
         /\ op' = [op EXCEPT !.fatal = IF leitura = "erro" THEN "leitura" ELSE @]
    /\ UNCHANGED funvars
    /\ UNCHANGED <<persons, deals, extract, ledger, historico, remote, variant, run,
                   sweep, calls, pre, snap, poolvars, limvars, log_processamentos,
                   current_processing_id>>

(* The run opens its row and keeps the id it is given. *)
IniciarProcessamento ==
    /\ pc = "iniciar"
    /\ \E falha \in BOOLEAN :
         LET r == iniciar_processamento(log_processamentos, falha)
         IN  /\ log_processamentos' = r.rows
             /\ current_processing_id' = r.id
             /\ op' = [op EXCEPT !.fatal = IF falha THEN "ledger" ELSE @]
    /\ pc' = "passes"
    /\ UNCHANGED funvars
    /\ UNCHANGED <<persons, deals, extract, ledger, historico, remote, variant, run,
                   todo, sweep, calls, pre, snap, poolvars, limvars, retorno>>

(* One debtor of the per-extract pass: it may mutate the remote and it may be
   saved in the ledger.  The optimized run that finds the stop flag set drops
   the debtors it has not yet taken. *)
PassDebtor ==
    /\ pc = "passes" /\ todo # {}
    /\ IF variant = "optimized" /\ should_stop
       THEN /\ todo' = {}
            /\ op' = [op EXCEPT !.cortado = TRUE, !.salvas = Len(ledger)]
            /\ UNCHANGED <<ledger, historico, calls>>
       ELSE \E d \in todo, muta \in BOOLEAN, salva \in BOOLEAN :
              /\ todo' = todo \ {d}
              /\ calls' = IF muta THEN <<Call("update_deal", 1, 0, "", 0, 0, d, TRUE)>> ELSE <<>>
              /\ ledger' = IF salva
                           THEN salvar_entidade_devedor(ledger, d, Tipo(d), 1, 0, 1,
                                                        "atualizado", 0, 0)
                           ELSE ledger
              /\ historico' = IF salva THEN salvar_historico(historico, ledger, d, Tipo(d))
                              ELSE historico
              /\ op' = [op EXCEPT !.mutou = @ \/ muta]
    /\ UNCHANGED funvars
    /\ UNCHANGED <<persons, deals, extract, remote, pc, variant, run, sweep, pre, snap,
                   poolvars, limvars, logvars>>

(* An exception outside the per-debtor handlers (a progress callback, the
   consolidation of the results) reaches the run's except clause. *)
PassRaise ==
    /\ pc = "passes"
    /\ pc' = "except"
    /\ UNCHANGED funvars
    /\ UNCHANGED <<persons, deals, extract, ledger, historico, remote, variant, run,
                   todo, sweep, calls, op, pre, snap, poolvars, limvars, logvars>>

(* The removal sweep, which catches its own exceptions, and then
   finalizar_processamento(..., 'concluido') and the return of the statistics.
   The optimized sweep that finds the stop flag set leaves its loop. *)
FinishConcluido ==
    /\ pc = "passes" /\ todo = {}
    /\ \E muta \in BOOLEAN, falha \in BOOLEAN :
         LET stop == variant = "optimized" /\ should_stop
         IN  /\ calls' = IF muta /\ ~stop THEN <<Call("mark_deal_as_lost", 1, 0, "lost", 0, 0, 0, FALSE)>> ELSE <<>>
             /\ log_processamentos' = finalizar_processamento(log_processamentos, current_processing_id, "concluido", "", falha)
             /\ op' = [op EXCEPT !.mutou = @ \/ (muta /\ ~stop),
                                 !.cortado = @ \/ stop,
                                 !.salvas = IF op.cortado THEN @ ELSE IF stop THEN Len(ledger) ELSE @,
                                 !.finalizacoes = @ + (IF current_processing_id # 0 THEN 1 ELSE 0)]
    /\ pc' = "done" /\ retorno' = "stats"
    /\ UNCHANGED funvars
    /\ UNCHANGED <<persons, deals, extract, ledger, historico, remote, variant, run,
                   todo, sweep, pre, snap, poolvars, limvars, current_processing_id>>

(* The run's except clause: the error is added to the statistics, the row is
   closed with 'erro' if the run holds an id, and the statistics are
   returned. *)
RunExcept ==
    /\ pc = "except"
    /\ \E falha \in BOOLEAN :
         /\ log_processamentos' = IF current_processing_id # 0
                                  THEN finalizar_processamento(log_processamentos, current_processing_id, "erro", "erro", falha)
                                  ELSE log_processamentos
         /\ op' = [op EXCEPT !.finalizacoes = @ + (IF current_processing_id # 0 THEN 1 ELSE 0)]
    /\ pc' = "done" /\ retorno' = "stats"
    /\ UNCHANGED funvars
    /\ UNCHANGED <<persons, deals, extract, ledger, historico, remote, variant, run,
                   todo, sweep, calls, pre, snap, poolvars, limvars,
                   current_processing_id>>

(* ---- document normalization (file_processor.py, pipedrive_client.py) ---- *)

(* Strings are sequences of characters; the digits are the numbers 0 .. 9.
   The documents studied are written with the digits 0 and 1. *)
isdigit(c) == c \in 0 .. 9
Digitos == {0, 1}
RawDocs == UNION {[1 .. n -> Digitos] : n \in 0 .. MaxRaw}

(* _clean_document: the digits of the document, in order. *)
clean_document(document) == SelectSeq(document, isdigit)

(* s[-n:] for a string of n characters or more. *)
str_last(s, n) == SubSeq(s, Len(s) - n + 1, Len(s))

(* s.zfill(width) *)
str_zfill(s, width) ==
    IF Len(s) >= width THEN s
    ELSE [i \in 1 .. width |-> IF i <= width - Len(s) THEN 0
                               ELSE s[i - (width - Len(s))]]

(* s.lstrip('0') *)
RECURSIVE lstrip0(_)
lstrip0(s) == IF s # <<>> /\ s[1] = 0 THEN lstrip0(Tail(s)) ELSE s

target_length(person_type) == IF person_type = "PF" THEN CPF_LEN ELSE CNPJ_LEN

(* FileProcessor._normalize_document_by_type *)
normalize_sem_corte(document, person_type) == str_zfill(clean_document(document), target_length(person_type))
normalize_document_by_type(document, person_type) ==
    LET clean_doc == clean_document(document)
    IN  IF clean_doc = <<>> THEN <<>>
        ELSE IF person_type \notin {"PF", "PJ"} THEN clean_doc
        ELSE IF Len(clean_doc) >= target_length(person_type)
             THEN str_last(clean_doc, target_length(person_type))
             ELSE str_zfill(clean_doc, target_length(person_type))

(* The duplicates of a list of variants removed, the order kept. *)
RECURSIVE unique_variants(_)
unique_variants(variants) ==
    IF variants = <<>> THEN <<>>
    ELSE LET antes == unique_variants(SubSeq(variants, 1, Len(variants) - 1))
             v == variants[Len(variants)]
         IN  IF v = <<>> \/ \E k \in DOMAIN antes : antes[k] = v THEN antes
             ELSE Append(antes, v)

(* PipedriveClient._normalize_document_by_type for PF or PJ: the document at
   its length, then the document without its leading zeros. *)
variants_of(clean_doc, n) ==
    IF Len(clean_doc) >= n
    THEN LET correct_doc == str_last(clean_doc, n)
             stripped_doc == lstrip0(correct_doc)
         IN  unique_variants(
                 IF stripped_doc # <<>> /\ stripped_doc # correct_doc
                 THEN <<correct_doc, stripped_doc>> ELSE <<correct_doc>>)
    ELSE LET padded_doc == str_zfill(clean_doc, n)
             stripped_doc == lstrip0(clean_doc)
         IN  unique_variants(
                 IF stripped_doc # <<>> THEN <<padded_doc, stripped_doc>>
                 ELSE <<padded_doc>>)

(* PipedriveClient._normalize_document_by_type *)
normalize_document_variants(document, person_type) ==
    LET clean_doc == clean_document(document)
    IN  IF clean_doc = <<>> THEN <<>>
        ELSE IF person_type \in {"PF", "PJ"}
             THEN variants_of(clean_doc, target_length(person_type))
             ELSE unique_variants(variants_of(clean_doc, CPF_LEN)
                                      \o variants_of(clean_doc, CNPJ_LEN))

(* A document of the extract is normalized for its type, the result is
   normalized again, and the client derives its search variants. *)
NormalizeDocument ==
    /\ pc = "normalize" /\ saida = NoOut
    /\ LET n == normalize_document_by_type(entrada.document, entrada.person_type)
       IN  saida' = [kind |-> "normalize", normalized |-> n,
                     again |-> normalize_document_by_type(n, entrada.person_type),
                     variants |-> normalize_document_variants(
                                      entrada.document, entrada.person_type)]
    /\ UNCHANGED <<runvars, poolvars, limvars, logvars, entrada, bg, conn>>

(* ---- the delay tag and the custom fields of a deal ---- *)

(* Python values: None, an int, a str (its characters: a digit is its value,
   any other character its code), a list, the dict of a monetary field. *)
PyNone == [t |-> "None"]
PyInt(n) == [t |-> "int", v |-> n]
PyStr(str) == [t |-> "str", v |-> str]
PyList(l) == [t |-> "list", v |-> l]
PyMoney(n) == [t |-> "dict", value |-> n, currency |-> "BRL"]

(* str.strip(), str.upper(), `tok in s`, str.isdigit(), int(s) of a digit
   string. *)
RECURSIVE lstrip(_)
lstrip(str) == IF str # <<>> /\ str[1] = 32 THEN lstrip(Tail(str)) ELSE str
RECURSIVE rstrip(_)
rstrip(str) ==
    IF str # <<>> /\ str[Len(str)] = 32 THEN rstrip(SubSeq(str, 1, Len(str) - 1))
    ELSE str
strip(str) == rstrip(lstrip(str))
upper(str) == [i \in DOMAIN str |-> IF str[i] \in 97 .. 122 THEN str[i] - 32 ELSE str[i]]
contains(str, tok) ==
    \E k \in 0 .. Len(str) - Len(tok) : SubSeq(str, k + 1, k + Len(tok)) = tok
str_isdigit(str) == str # <<>> /\ \A i \in DOMAIN str : isdigit(str[i])
RECURSIVE int_of(_)
int_of(str) ==
    IF str = <<>> THEN 0
    ELSE 10 * int_of(SubSeq(str, 1, Len(str) - 1)) + str[Len(str)]

(* '> 90', '>90', 'PREJU', 'ACIMA' and '<90', 'INAD', 'EVITAR' *)
tokens_preju == {<<62, 32, 9, 0>>, <<62, 9, 0>>, <<80, 82, 69, 74, 85>>, <<65, 67, 73, 77, 65>>}
tokens_inad == {<<60, 9, 0>>, <<73, 78, 65, 68>>, <<69, 86, 73, 84, 65, 82>>}

(* FileProcessor._determine_delay_tag, of the days _calculate_max_overdue_days
   found. *)
determine_delay_tag_a_partir_de(max_days) == IF max_days >= LIMITE_DIAS THEN TAG_EVITAR_PREJU ELSE TAG_EVITAR_INAD
determine_delay_tag(max_days) == IF max_days > LIMITE_DIAS THEN TAG_EVITAR_PREJU ELSE TAG_EVITAR_INAD

(* _build_deal_data_from_txt: tag_atraso, of dias_atraso_maximo. *)
tag_atraso(dias_atraso) == IF dias_atraso > LIMITE_DIAS THEN TAG_EVITAR_PREJU ELSE TAG_EVITAR_INAD

(* The tag a text stands for, in both formatters. *)
tag_of_text(value) ==
    LET u == upper(value)
    IN  IF \E tok \in tokens_preju : contains(u, tok) THEN PyList(<<TAG_EVITAR_PREJU>>)
        ELSE IF \E tok \in tokens_inad : contains(u, tok) THEN PyList(<<TAG_EVITAR_INAD>>)
        ELSE IF str_isdigit(u)
             THEN PyList(<<IF int_of(u) > LIMITE_DIAS THEN TAG_EVITAR_PREJU
                           ELSE TAG_EVITAR_INAD>>)
        ELSE PyList(<<TAG_EVITAR_INAD>>)

(* BusinessRulesProcessor._format_custom_field_value for TAG_ATRASO. *)
format_tag_atraso(value) ==
    IF value.t = "None" THEN PyNone
    ELSE IF value.t = "str" /\ value.v = <<>> THEN PyNone
    ELSE IF value.t = "int" /\ value.v \in {TAG_EVITAR_INAD, TAG_EVITAR_PREJU}
         THEN PyList(<<value.v>>)
    ELSE IF value.t = "int" /\ value.v > 0
         THEN PyList(<<IF value.v > LIMITE_DIAS THEN TAG_EVITAR_PREJU
                       ELSE TAG_EVITAR_INAD>>)
    ELSE IF value.t = "str" /\ strip(value.v) # <<>> THEN tag_of_text(value.v)
    ELSE PyNone

(* PipedriveClient._format_custom_field_value_for_api_v2 for TAG_ATRASO. *)
format_tag_atraso_for_api_v2(value) ==
    IF value.t = "None" THEN PyNone
    ELSE IF value.t = "str" /\ value.v = <<>> THEN PyNone
    ELSE IF value.t = "list" THEN value
    ELSE IF value.t = "int"
         THEN PyList(<<IF value.v > LIMITE_DIAS THEN TAG_EVITAR_PREJU
                       ELSE TAG_EVITAR_INAD>>)
    ELSE IF value.t = "str" /\ strip(value.v) # <<>> THEN tag_of_text(value.v)
    ELSE PyNone

(* update_deal: the custom fields it sends, a field formatted to None left
   out. *)
custom_fields(data) ==
    LET formatted == format_tag_atraso_for_api_v2(data.TAG_ATRASO)
    IN  IF data.TAG_ATRASO.t = "None" \/ formatted.t = "None" THEN [omitted |-> TRUE]
        ELSE [omitted |-> FALSE, TAG_ATRASO |-> formatted]

(* A debtor whose oldest instalment is entrada.dias days overdue is
   consolidated (tag_atraso of the record), its deal data are built and
   update_deal sends them. *)
BuildDealData ==
    /\ pc = "deal" /\ saida = NoOut
    /\ LET deal_data == [TAG_ATRASO |-> format_tag_atraso(PyInt(tag_atraso(entrada.dias)))]
       IN  saida' = [kind |-> "deal",
                     tag_atraso |-> determine_delay_tag(entrada.dias),
                     deal_data |-> deal_data,
                     custom_fields |-> custom_fields(deal_data)]
    /\ UNCHANGED <<runvars, poolvars, limvars, logvars, entrada, bg, conn>>

(* str(n) of an int n >= 0. *)
RECURSIVE str_of(_)
str_of(n) == IF n < 10 THEN <<n>> ELSE Append(str_of(n \div 10), n % 10)

(* int(s): the number a text spells, None for the ValueError. *)
int_parse(str) == IF str_isdigit(strip(str)) THEN PyInt(int_of(strip(str))) ELSE PyNone

(* s.split('/') *)
RECURSIVE split(_)
split(str) ==
    IF \A i \in DOMAIN str : str[i] # 47 THEN <<str>>
    ELSE LET k == CHOOSE i \in DOMAIN str :
                      str[i] = 47 /\ \A j \in 1 .. i - 1 : str[j] # 47
         IN  <<SubSeq(str, 1, k - 1)>> \o split(SubSeq(str, k + 1, Len(str)))

(* DD/MM/YYYY to YYYY-MM-DD; None when the text has not three parts. *)
format_date(value) ==
    IF ~contains(value, <<47>>) THEN PyStr(value)
    ELSE LET parts == split(value)
         IN  IF Len(parts) # 3 THEN PyNone
             ELSE PyStr(parts[3] \o <<45>> \o str_zfill(parts[2], 2) \o <<45>>
                            \o str_zfill(parts[1], 2))

(* The ID_CPF_CNPJ branch for a text. *)
format_id_cpf_cnpj(value) ==
    LET clean_value == clean_document(value)
    IN  IF Len(clean_value) \in {CPF_LEN, CNPJ_LEN} THEN clean_value
        ELSE IF Len(clean_value) > CNPJ_LEN THEN str_last(clean_value, CPF_LEN)
        ELSE IF Len(clean_value) <= CPF_LEN THEN str_zfill(clean_value, CPF_LEN)
        ELSE str_zfill(clean_value, CNPJ_LEN)

(* value.lstrip('0') if value.lstrip('0') else '0' *)
sem_zeros(value) == IF lstrip0(value) # <<>> THEN lstrip0(value) ELSE <<0>>

campos_data ==
    {"VENCIMENTO_MAIS_ANTIGO", "DATA_PREJUIZO_MAIS_ANTIGO", "DATA_TERCEIRIZACAO",
     "DATA_PREVISTA_HONRA"}
campos_monetarios ==
    {"VALOR_TOTAL_DA_DIVIDA", "VALOR_TOTAL_VENCIDO", "VALOR_TOTAL_COM_JUROS",
     "VALOR_MINIMO"}
campos_numericos == {"DIAS_DE_ATRASO", "ESPE_PARCELAMENTO"}
campos_sem_zeros ==
    {"TODAS_OPERACOES", "TODOS_CONTRATOS", "NUMERO_CONTRATO", "TOTAL_DE_PARCELAS"}
campos_vazios == {"CONTRATO_GARANTINORTE", "AVALISTAS"}
campos_texto == {"COOPERADO", "COOPERATIVA", "TIPO_ACAO_CARTEIRA", "CONDICAO_CPF"}
Campos ==
    campos_data \cup campos_monetarios \cup campos_numericos \cup campos_sem_zeros
        \cup campos_vazios \cup campos_texto \cup {"ID_CPF_CNPJ", "TAG_ATRASO"}

(* BusinessRulesProcessor._format_custom_field_value; value is None, an int
   or a str. *)
format_custom_field_value(field_name, value) ==
    LET texto == value.t = "str" /\ strip(value.v) # <<>>
    IN  IF field_name = "TAG_ATRASO" THEN format_tag_atraso(value)
        ELSE IF value.t = "None" \/ (value.t = "str" /\ value.v = <<>>)
                    \/ (value.t = "int" /\ value.v = 0)
             THEN PyNone
        ELSE IF field_name \in campos_data
             THEN IF texto THEN format_date(value.v) ELSE PyNone
        ELSE IF field_name \in campos_monetarios
             THEN IF value.t = "int" /\ value.v > 0 THEN PyMoney(value.v) ELSE PyNone
        ELSE IF field_name = "ID_CPF_CNPJ"
             THEN IF texto THEN PyStr(format_id_cpf_cnpj(value.v))
                  ELSE IF value.t = "int" THEN PyStr(str_of(value.v))
                  ELSE PyNone
        ELSE IF field_name \in campos_numericos
             THEN IF texto THEN int_parse(value.v)
                  ELSE IF value.t = "int" THEN value
                  ELSE PyNone
        ELSE IF field_name \in campos_sem_zeros
             THEN IF texto THEN PyStr(sem_zeros(value.v))
                  ELSE IF value.t = "int" THEN PyStr(str_of(value.v))
                  ELSE PyNone
        ELSE IF value.t = "str"
             THEN IF strip(value.v) # <<>> THEN PyStr(strip(value.v)) ELSE PyNone
        ELSE IF field_name \in campos_vazios THEN PyStr(str_of(value.v))
        ELSE value

(* The texts handed to the formatting: '', ' ', '0', '07', '91', ' 7 ',
   '1/2/2003', '1/2', 'ab', 'inad'. *)
Textos ==
    {<<>>, <<32>>, <<0>>, <<0, 7>>, <<9, 1>>, <<32, 7, 32>>,
     <<1, 47, 2, 47, 2, 0, 0, 3>>, <<1, 47, 2>>, <<97, 98>>, <<105, 110, 97, 100>>}

Valores ==
    {PyNone} \cup {PyInt(n) : n \in 0 .. MaxValor} \cup {PyStr(str) : str \in Textos}

(* One call of _format_custom_field_value. *)
FormatCustomFieldValue ==
    /\ pc = "format" /\ saida = NoOut
    /\ saida' = [kind |-> "format",
                 value |-> format_custom_field_value(entrada.field_name, entrada.value)]
    /\ UNCHANGED <<runvars, poolvars, limvars, logvars, entrada, bg, conn>>

(* ---- FileProcessor: from the lines of the extract to the debtors ---- *)

(* A line is its record type and, for a record 01, the CPF/CNPJ and the
   Tipo_Pessoa fields. *)
Linhas ==
    {[registro |-> r, cpf_cnpj |-> <<>>, tipo_pessoa |-> ""] : r \in {"00", "15"}}
        \cup [registro : {"01"},
              cpf_cnpj : {<<>>, <<1>>, <<0, 1>>, <<2>>, <<46>>, <<46, 1>>},
              tipo_pessoa : {"01", "02", ""}]

(* _parse_txt_blocks: headers and footers skipped, a record 01 starts a block,
   the other lines join the block in progress, if any. *)
RECURSIVE parse_blocks(_, _, _)
parse_blocks(lines, blocks, current_block) ==
    IF lines = <<>>
    THEN IF current_block # <<>> THEN Append(blocks, current_block) ELSE blocks
    ELSE LET line == Head(lines)
         IN  IF line.registro \in {"00", "99"}
             THEN parse_blocks(Tail(lines), blocks, current_block)
             ELSE IF line.registro = "01"
             THEN parse_blocks(Tail(lines),
                               IF current_block # <<>> THEN Append(blocks, current_block)
                               ELSE blocks,
                               <<line>>)
             ELSE parse_blocks(Tail(lines), blocks,
                               IF current_block # <<>> THEN Append(current_block, line)
                               ELSE current_block)

(* The record types with a layout in self.txt_fields. *)
txt_fields == {"01", "05", "10", "15", "20"}

(* _parse_single_block: the records of the block, from its lines of a type
   that has a layout; the other lines leave nothing in the block. *)
parse_single_block(block_lines) ==
    SelectSeq(block_lines, LAMBDA line : line.registro \in txt_fields)

parse_txt_blocks(lines) ==
    LET bs == parse_blocks(lines, <<>>, <<>>)
    IN  [k \in DOMAIN bs |-> parse_single_block(bs[k])]

(* _map_tipo_pessoa_from_txt *)
map_tipo_pessoa_pf_por_omissao(tipo_pessoa_codigo) == IF tipo_pessoa_codigo \in {"02", "2", "PJ", "J"} THEN "PJ" ELSE "PF"
map_tipo_pessoa_from_txt(tipo_pessoa_codigo) ==
    IF tipo_pessoa_codigo \in {"01", "1", "PF", "F"} THEN "PF"
    ELSE IF tipo_pessoa_codigo \in {"02", "2", "PJ", "J"} THEN "PJ"
    ELSE "INDEFINIDO"

(* _consolidate_blocks_for_pipedrive: one record for every block whose debtor
   has a type and a document. *)
RECURSIVE consolidate_blocks_for_pipedrive(_)
consolidate_blocks_for_pipedrive(blocks) ==
    IF blocks = <<>> THEN <<>>
    ELSE LET devedor == Head(blocks)[1]
             tipo_pessoa == map_tipo_pessoa_from_txt(devedor.tipo_pessoa)
             normalizado == normalize_document_by_type(devedor.cpf_cnpj, tipo_pessoa)
             resto == consolidate_blocks_for_pipedrive(Tail(blocks))
         IN  IF tipo_pessoa = "INDEFINIDO" \/ normalizado = <<>> THEN resto
             ELSE <<[cpf_cnpj |-> normalizado, tipo_pessoa |-> tipo_pessoa]>> \o resto

(* The guard at the head of _process_single_inadimplente_optimized and of
   _process_single_inadimplente_with_backup. *)
documento_invalido(inadimplente) ==
    inadimplente.cpf_cnpj = <<>> \/ inadimplente.tipo_pessoa = "INDEFINIDO"

(* The records the per-extract pass searches the remote for. *)
buscas(inadimplentes_data) ==
    SelectSeq(inadimplentes_data, LAMBDA inadimplente : ~documento_invalido(inadimplente))

(* process_txt_file_direct, and the searches the pass then makes of its
   result. *)
ProcessTxtFileDirect ==
    /\ pc = "txt" /\ saida = NoOut
    /\ LET blocks == parse_txt_blocks(entrada.lines)
           consolidated_data == consolidate_blocks_for_pipedrive(blocks)
       IN  saida' = [kind |-> "txt", blocks |-> blocks,
                     consolidated_data |-> consolidated_data,
                     buscas |-> buscas(consolidated_data)]
    /\ UNCHANGED <<runvars, poolvars, limvars, logvars, entrada, bg, conn>>

(* ---- initial states ---- *)

RECURSIVE SortedSeq(_)
SortedSeq(S) == IF S = {} THEN <<>> ELSE <<Min(S)>> \o SortedSeq(S \ {Min(S)})

StatusRank(st) == IF st = "open" THEN 0 ELSE IF st = "won" THEN 1 ELSE 2
DealRank(x) ==
    (((x.pipeline_id * 1000 + x.stage_id) * 10 + StatusRank(x.status)) * 10 + x.doc)
        * 2 + (IF x.short THEN 1 ELSE 0)

(* The remote numbers deals as they are created; deals that differ only in the
   order of their ids are the same remote state, so one order is drawn. *)
InIdOrder(ds) == \A i \in 1 .. Len(ds) - 1 : DealRank(ds[i]) <= DealRank(ds[i + 1])

DealsOf(owners, docs, stages, forms, n) ==
    {ds \in UNION {[1 .. k -> {x \in [person : owners, doc : docs,
                                      pipeline_id : Pipelines, stage_id : stages,
                                      status : Statuses, short : forms] :
                                  x.doc = 0 => ~x.short}] : k \in 0 .. n} :
        InIdOrder(ds)}

(* The documents drawn for the titles of a debtor's person's deals: the
   debtor's own and one other, every other document being treated alike. *)
TitleDocs(d) == {d} \cup (IF Docs = {d} THEN {} ELSE {Min(Docs \ {d})})

(* One debtor in front of a remote holding at most one person per document
   and up to MaxDeals deals, all of them the debtor's person's. *)
InitRemote(r) ==
    /\ \E d \in Docs : extract = {d}
    /\ \E S \in SUBSET Docs : persons = SortedSeq(S)
    /\ LET d == CHOOSE x \in extract : TRUE
           p == search_person_by_document(persons, d, "none")
       IN  deals \in DealsOf({p}, TitleDocs(d), DebtorStages, {FALSE},
                             IF p = 0 THEN 0 ELSE MaxDeals)
    /\ variant \in {"primary", "optimized"}
    /\ remote = r
    /\ ledger = <<>> /\ historico = <<>>
    /\ pc = "extract" /\ run = 1 /\ todo = extract /\ sweep = <<>>
    /\ PoolIdle
    /\ calls = <<>> /\ op = NoOp /\ pre = deals /\ snap = <<>>

InitDebtor == InitRemote("reliable")
InitFaulty == InitRemote("flaky")

NextDebtor == ProcessDebtorPrimary \/ ProcessDebtorOptimized

SpecDebtor == InitDebtor /\ [][NextDebtor]_vars
SpecFaulty == InitFaulty /\ [][NextDebtor]_vars

(* The sweep in front of a remote holding up to MaxSweepDeals deals of any
   pipeline, stage, status and title. *)
InitSweep ==
    /\ extract \in SUBSET Docs \ {{}}
    /\ persons = SortedSeq(Docs)
    /\ deals \in DealsOf({1}, Docs \cup {0}, Stages, BOOLEAN, MaxSweepDeals)
    /\ variant \in {"primary", "optimized"}
    /\ remote = "flaky"
    /\ ledger = <<>> /\ historico = <<>>
    /\ pc = "fetch" /\ run = MaxRuns /\ todo = {} /\ sweep = <<>>
    /\ PoolIdle
    /\ calls = <<>> /\ op = NoOp /\ pre = deals /\ snap = <<>>

NextSweep == FetchRemoved \/ RemovalStep \/ FinishRun

SpecSweep == InitSweep /\ [][NextSweep]_vars

(* Two runs of the same extract against a remote nobody else changes. *)
InitRun ==
    /\ extract \in SUBSET Docs \ {{}}
    /\ \E S \in SUBSET Docs : persons = SortedSeq(S)
    /\ deals \in DealsOf(DOMAIN persons, Docs, Stages, {FALSE}, MaxSweepDeals)
    /\ variant \in {"primary", "optimized"}
    /\ remote = "reliable"
    /\ ledger = <<>> /\ historico = <<>>
    /\ pc = "extract" /\ run = 1 /\ todo = extract /\ sweep = <<>>
    /\ PoolIdle
    /\ calls = <<>> /\ op = NoOp /\ pre = deals /\ snap = <<>>

NextRun ==
    \/ ProcessDebtorPrimary
    \/ ProcessDebtorOptimized
    \/ FetchRemoved
    \/ RemovalStep
    \/ FinishRun

SpecRun == InitRun /\ [][NextRun]_vars

(* The ledger of a fresh database, before any save. *)
InitLedger ==
    /\ extract = {} /\ persons = <<>> /\ deals = <<>>
    /\ variant = "primary" /\ remote = "reliable"
    /\ ledger = <<>> /\ historico = <<>>
    /\ pc = "ledger" /\ run = 1 /\ todo = {} /\ sweep = <<>>
    /\ PoolIdle
    /\ calls = <<>> /\ op = NoOp /\ pre = <<>> /\ snap = <<>>

NextLedger == SalvarEntidade

SpecLedger == InitLedger /\ [][NextLedger]_vars

(* A pooled run of the optimized processor over MaxItens debtors. *)
InitPool ==
    /\ extract = Itens /\ persons = <<>> /\ deals = <<>>
    /\ variant = "optimized" /\ remote \in {"reliable", "flaky"}
    /\ ledger = <<>> /\ historico = <<>>
    /\ pc = "lote" /\ run = 1 /\ todo = {} /\ sweep = <<>>
    /\ calls = <<>> /\ op = NoOp /\ pre = <<>> /\ snap = <<>>
    /\ tasks = [i \in Itens |-> IdleTask]
    /\ should_stop = FALSE /\ lote = 1 /\ progresso = <<>> /\ erros = <<>>
    /\ LimiterIdle
    /\ pipeline_ids = <<PIPELINE_BASE_NOVA_SDR_ID, PIPELINE_BASE_NOVA_NEGOCIACAO_ID,
                        PIPELINE_BASE_NOVA_FORMALIZACAO_ID>>

NextPool ==
    \/ NextBatch \/ Submit \/ Collect \/ WorkerStart \/ TaskAcquire \/ TaskCall
    \/ TaskSave \/ TaskEnd \/ stop_processing \/ SweepFetch \/ SweepItem

SpecPool == InitPool /\ [][NextPool]_vars

(* The workers of one run in front of a fresh rate limiter; the clock reads
   a time at which last_429_time = 0 asks for no cooldown. *)
InitLimiter ==
    /\ extract = {} /\ persons = <<>> /\ deals = <<>>
    /\ variant = "optimized" /\ remote = "flaky"
    /\ ledger = <<>> /\ historico = <<>>
    /\ pc = "limiter" /\ run = 1 /\ todo = {} /\ sweep = <<>>
    /\ calls = <<>> /\ op = NoOp /\ pre = <<>> /\ snap = <<>>
    /\ tasks = <<>> /\ should_stop = FALSE /\ lote = 0 /\ pipeline_ids = <<>>
    /\ progresso = <<>> /\ erros = <<>>
    /\ now = COOLDOWN /\ requests = <<>> /\ last_429_time = 0 /\ lock = 0
    /\ thr = [w \in Workers |-> IdleThread] /\ grants = <<>>
    /\ LogIdle

NextLimiter == ClockTick \/ WaitEnter \/ WaitLeave \/ WorkerCall

SpecLimiter == InitLimiter /\ [][NextLimiter]_vars

(* One run of either processor, newly constructed, over the whole extract. *)
InitLog ==
    /\ extract = Docs /\ persons = <<>> /\ deals = <<>>
    /\ variant \in {"primary", "optimized"} /\ remote = "reliable"
    /\ ledger = <<>> /\ historico = <<>>
    /\ pc = "start" /\ run = 1 /\ todo = {} /\ sweep = <<>>
    /\ calls = <<>> /\ op = RunOp /\ pre = <<>> /\ snap = <<>>
    /\ PoolIdle

NextLog ==
    \/ ReadExtract \/ IniciarProcessamento \/ PassDebtor \/ PassRaise
    \/ FinishConcluido \/ RunExcept \/ (variant = "optimized" /\ stop_processing)

SpecLog == InitLog /\ [][NextLog]_vars

(* Any document of up to MaxRaw digits and its type in front of the
   normalization. *)
InitFun ==
    /\ extract = {} /\ persons = <<>> /\ deals = <<>>
    /\ variant = "primary" /\ remote = "reliable"
    /\ ledger = <<>> /\ historico = <<>>
    /\ run = 1 /\ todo = {} /\ sweep = <<>>
    /\ tasks = <<>> /\ should_stop = FALSE /\ lote = 0 /\ pipeline_ids = <<>>
    /\ progresso = <<>> /\ erros = <<>>
    /\ now = 0 /\ requests = <<>> /\ last_429_time = 0 /\ lock = 0
    /\ thr = <<>> /\ grants = <<>>
    /\ log_processamentos = <<>> /\ current_processing_id = 0 /\ retorno = "none"
    /\ calls = <<>> /\ op = NoOp /\ pre = <<>> /\ snap = <<>>
    /\ saida = NoOut /\ bg = BgIdle /\ conn = <<>>

InitNormalize ==
    /\ InitFun /\ pc = "normalize"
    /\ entrada \in [document : RawDocs, person_type : Tipos]

SpecNormalize == InitNormalize /\ [][NormalizeDocument]_vars

(* Any number of days overdue up to MaxDias in front of the delay tag. *)
InitDelayTag ==
    /\ InitFun /\ pc = "deal"
    /\ entrada \in [dias : 0 .. MaxDias]

SpecDelayTag == InitDelayTag /\ [][BuildDealData]_vars

(* Any field and any value in front of the formatting. *)
InitFormat ==
    /\ InitFun /\ pc = "format"
    /\ entrada \in [field_name : Campos, value : Valores]

SpecFormat == InitFormat /\ [][FormatCustomFieldValue]_vars

(* Any extract file of up to MaxLinhas lines. *)
InitTxt ==
    /\ InitFun /\ pc = "txt"
    /\ entrada \in [lines : UNION {[1 .. n -> Linhas] : n \in 0 .. MaxLinhas}]

SpecTxt == InitTxt /\ [][ProcessTxtFileDirect]_vars

(* ---- properties ---- *)

DebtorStep == op.kind \in {"primary", "optimized"}
Mutations == {"update_deal", "mark_deal_as_lost"}

(* The deals of the listing whose title carries the debtor's document. *)
Matched == {i \in Range(op.listed) : pre[i].doc = op.doc}
CallsOn(i) == {k \in DOMAIN calls : calls[k].op \in Mutations /\ calls[k].id = i}
CallsOf(o) == {k \in DOMAIN calls : calls[k].op = o}
SameDeal(a, b) ==
    a.pipeline_id = b.pipeline_id /\ a.stage_id = b.stage_id /\ a.status = b.status

(* ---- BackgroundProcessor: the run that keeps a state file ---- *)

(* The extract files a run may be given; '' is path 0 and names no file. *)
Arquivos == 1 .. MaxArquivos

(* _process_items_with_persistence saves the state every SALVAR_A_CADA items. *)
SALVAR_A_CADA == 10

(* processing_state.get('last_processed_index', 0) *)
get_last_processed_index(state) == IF state.existe THEN state.last_processed_index ELSE 0

(* processing_state.get('txt_path', '') *)
get_txt_path(state) == IF state.existe THEN state.txt_path ELSE 0

(* _load_processing_state: the state of the file when it is of this path. *)
load_processing_state(config_file, txt_path) ==
    IF config_file.existe /\ config_file.txt_path = txt_path THEN config_file ELSE Vazio

(* _save_processing_state, called with processing_state.get('txt_path', '');
   'arquivo' remembers the extract of the run that wrote the state. *)
save_processing_state(state, last_index, arquivo) ==
    [existe |-> TRUE, txt_path |-> get_txt_path(state), last_processed_index |-> last_index,
     status |-> "processing", arquivo |-> arquivo]

(* _clear_processing_state: the file is marked when it is of this path. *)
clear_processing_state(config_file, txt_path) ==
    IF config_file.existe /\ config_file.txt_path = txt_path
    THEN [config_file EXCEPT !.status = "completed"]
    ELSE config_file

(* process_file_background up to the call of _process_items_with_persistence:
   the state is loaded, an incomplete run is resumed without asking, and the
   items are taken from start_index on. *)
ProcessFileBackground ==
    /\ pc = "bg" /\ bg.st = "idle"
    /\ \E txt_path \in Arquivos :
         LET state == load_processing_state(bg.config_file, txt_path)
         IN  bg' = [bg EXCEPT !.processing_state = state, !.st = "items",
                              !.txt_path = txt_path,
                              !.start_index = get_last_processed_index(state),
                              !.i = 0, !.processed_count = 0, !.should_stop = FALSE]
    /\ UNCHANGED <<runvars, poolvars, limvars, logvars, entrada, saida, conn>>

(* One turn of the loop of _process_items_with_persistence: the item is
   processed, or raises and is recorded; every SALVAR_A_CADA processed items
   the state is saved. *)
ProcessItemWithPersistence ==
    /\ pc = "bg" /\ bg.st = "items" /\ ~bg.should_stop
    /\ bg.i < ItensArquivo - bg.start_index
    /\ \E raised \in BOOLEAN :
         LET count == IF raised THEN bg.processed_count ELSE bg.processed_count + 1
             salva == ~raised /\ count % SALVAR_A_CADA = 0
             state == save_processing_state(bg.processing_state, bg.start_index + count,
                                            bg.txt_path)
         IN  bg' = [bg EXCEPT !.i = bg.i + 1, !.processed_count = count,
                              !.processing_state = IF salva THEN state ELSE @,
                              !.config_file = IF salva THEN state ELSE @]
    /\ UNCHANGED <<runvars, poolvars, limvars, logvars, entrada, saida, conn>>

(* _signal_handler and stop_background_processing *)
stop_background_processing ==
    /\ pc = "bg" /\ bg.st = "items" /\ ~bg.should_stop
    /\ bg' = [bg EXCEPT !.should_stop = TRUE]
    /\ UNCHANGED <<runvars, poolvars, limvars, logvars, entrada, saida, conn>>

(* The loop is left, on the stop flag or after the last item, and
   process_file_background clears the state and returns. *)
BackgroundReturn ==
    /\ pc = "bg" /\ bg.st = "items"
    /\ bg.should_stop \/ bg.i = ItensArquivo - bg.start_index
    /\ bg' = [bg EXCEPT !.st = "idle",
                        !.config_file = clear_processing_state(@, bg.txt_path)]
    /\ UNCHANGED <<runvars, poolvars, limvars, logvars, entrada, saida, conn>>

(* The process is killed during the loop: the state file stays as it is and
   the next run is a new BackgroundProcessor. *)
BackgroundKill ==
    /\ pc = "bg" /\ bg.st = "items"
    /\ bg' = [BgIdle EXCEPT !.config_file = bg.config_file]
    /\ UNCHANGED <<runvars, poolvars, limvars, logvars, entrada, saida, conn>>

(* Background runs over the extract files, from a directory without a state
   file. *)
InitBackground == InitFun /\ pc = "bg" /\ entrada = NoOut

NextBackground ==
    \/ ProcessFileBackground
    \/ ProcessItemWithPersistence
    \/ stop_background_processing
    \/ BackgroundReturn
    \/ BackgroundKill

SpecBackground == InitBackground /\ [][NextBackground]_vars

(* ---- a second call on the same processor instance ---- *)

(* process_inadimplentes_from_txt and process_inadimplentes_optimized called
   again once the earlier call has returned: the statistics are reset (and
   the stop flag, in the optimized processor); current_processing_id is
   assigned nowhere but after iniciar_processamento, so it keeps the id of the
   earlier run. *)
ProcessAgain ==
    /\ pc = "done" /\ retorno # "none" /\ run < MaxRuns
    /\ pc' = "start" /\ run' = run + 1 /\ retorno' = "none"
    /\ op' = RunOp /\ calls' = <<>> /\ todo' = {}
    /\ should_stop' = IF variant = "optimized" THEN FALSE ELSE should_stop
    /\ UNCHANGED funvars
    /\ UNCHANGED <<persons, deals, extract, ledger, historico, remote, variant, sweep,
                   pre, snap, tasks, lote, pipeline_ids, progresso, erros, limvars,
                   log_processamentos, current_processing_id>>

NextLogAgain == NextLog \/ ProcessAgain

SpecLogAgain == InitLog /\ [][NextLogAgain]_vars

(* ---- RetrySystem.execute_with_retry ---- *)

(* RetrySystem.__init__(max_retries=3, base_delay=1, max_delay=120) *)
base_delay == 1
max_delay == 120

(* The delays after a 429 and after 'request over limit'. *)
ESPERA_429 == 60
ESPERA_429_MAX == 300

(* How a call of func ends: it returns, raises a 429 response, raises
   'request over limit', or raises anything else. *)
Desfechos == {"ok", "429", "limit", "erro"}

(* delay = min(60 * (attempt + 1), 300) *)
delay_rate_limit(attempt) ==
    IF ESPERA_429 * (attempt + 1) < ESPERA_429_MAX THEN ESPERA_429 * (attempt + 1)
    ELSE ESPERA_429_MAX

(* delay = min(self.base_delay * (2 ** attempt), self.max_delay) *)
delay_backoff(attempt) ==
    IF base_delay * (2 ^ attempt) < max_delay THEN base_delay * (2 ^ attempt)
    ELSE max_delay

retry_delay(desfecho, attempt) ==
    IF desfecho \in {"429", "limit"} THEN delay_rate_limit(attempt)
    ELSE delay_backoff(attempt)

(* if attempt == self.max_retries: break, before time.sleep(delay) *)
sleeps_after_sempre(attempt) == TRUE
sleeps_after(attempt) == attempt # max_retries

(* execute_with_retry before its first attempt. *)
RetryStart == [kind |-> "retry", attempt |-> 0, chamadas |-> 0, sleeps |-> <<>>,
               fim |-> "none", valor |-> 0]

(* One turn of the loop of execute_with_retry: func is called; its result is
   returned, or its exception is kept, the delay computed and, unless this
   was the last attempt, slept; after the last attempt the last exception is
   raised. *)
ExecuteWithRetry ==
    /\ pc = "retry"
    /\ LET s == IF saida = NoOut THEN RetryStart ELSE saida
           desfecho == entrada.desfechos[s.attempt + 1]
       IN  /\ s.fim = "none"
           /\ saida' =
                IF desfecho = "ok"
                THEN [s EXCEPT !.chamadas = @ + 1, !.fim = "return",
                               !.valor = s.attempt + 1]
                ELSE [s EXCEPT !.chamadas = @ + 1,
                               !.attempt = @ + 1,
                               !.sleeps = IF sleeps_after(s.attempt)
                                          THEN Append(@, retry_delay(desfecho, s.attempt))
                                          ELSE @,
                               !.fim = IF s.attempt = max_retries THEN "raise" ELSE "none",
                               !.valor = s.attempt + 1]
    /\ UNCHANGED <<runvars, poolvars, limvars, logvars, entrada, bg, conn>>

(* A function whose calls end in any way, in front of execute_with_retry. *)
InitRetry ==
    /\ InitFun /\ pc = "retry"
    /\ entrada \in [kind : {"retry"}, desfechos : [1 .. max_retries + 1 -> Desfechos]]

SpecRetry == InitRetry /\ [][ExecuteWithRetry]_vars

(* ---- _create_batches and the batches _process_in_batches submits ---- *)

(* data[i:i + batch_size], with i counted from 0 *)
slice_sem_ultimo(data, i, batch_size) ==
    SubSeq(data, i + 1, Min({i + batch_size - 1, Len(data)}))
slice(data, i, batch_size) == SubSeq(data, i + 1, Min({i + batch_size, Len(data)}))

(* for i in range(0, len(data), batch_size): batches.append(data[i:i + batch_size]) *)
RECURSIVE batches_from(_, _, _)
batches_from(data, i, batch_size) ==
    IF i >= Len(data) THEN <<>>
    ELSE <<slice(data, i, batch_size)>> \o batches_from(data, i + batch_size, batch_size)

create_batches_of(data, batch_size) == batches_from(data, 0, batch_size)

(* What a run that is not stopped hands to executor.submit, batch after
   batch and item after item. *)
RECURSIVE submitted(_)
submitted(batches) ==
    IF batches = <<>> THEN <<>> ELSE Head(batches) \o submitted(Tail(batches))

(* _process_in_batches without a stop: the batches and the submissions. *)
ProcessInBatches ==
    /\ pc = "batches" /\ saida = NoOut
    /\ LET batches == create_batches_of(entrada.data, entrada.batch_size)
       IN  saida' = [kind |-> "batches", batches |-> batches,
                     submetidos |-> submitted(batches)]
    /\ UNCHANGED <<runvars, poolvars, limvars, logvars, entrada, bg, conn>>

(* Any list of up to MaxDados consolidated debtors, which may repeat, and any
   batch size from 1 to MaxLote. *)
InitBatches ==
    /\ InitFun /\ pc = "batches"
    /\ entrada \in [kind : {"batches"},
                    data : UNION {[1 .. n -> 1 .. MaxDocs] : n \in 0 .. MaxDados},
                    batch_size : 1 .. MaxLote]

SpecBatches == InitBatches /\ [][ProcessInBatches]_vars

(* ---- salvar_entidade_devedor from the threads of the pool ---- *)

(* The threads that save; each opens its own sqlite3.connect. *)
Threads == 1 .. MaxWorkers

IdleConn == [st |-> "idle", documento |-> 0, resultado |-> 0, ret |-> "none"]

(* UNIQUE(documento, tipo_pessoa): the INSERT of a key the table holds raises
   sqlite3.IntegrityError. *)
integrity_error(lg, documento, tipo_pessoa) == select_entidade(lg, documento, tipo_pessoa) # 0

(* The ledger after each document of S has been saved once. *)
RECURSIVE ledger_of(_)
ledger_of(S) ==
    IF S = {} THEN <<>>
    ELSE LET d == CHOOSE x \in S : \A y \in S : y <= x
         IN  salvar_entidade_devedor(ledger_of(S \ {d}), d, Tipo(d), 1, 0, 0, "criado", 0, 0)

RECURSIVE historico_of(_)
historico_of(S) ==
    IF S = {} THEN <<>>
    ELSE LET d == CHOOSE x \in S : \A y \in S : y <= x
         IN  salvar_historico(historico_of(S \ {d}), ledger_of(S \ {d}), d, Tipo(d))

(* The thread's SELECT id, version ... WHERE documento = ? AND tipo_pessoa = ?,
   which reads what is committed. *)
ConnSelect ==
    /\ pc = "threads"
    /\ \E t \in Threads, documento \in Docs :
         /\ conn[t].st = "idle"
         /\ conn' = [conn EXCEPT ![t] = [st |-> "selected", documento |-> documento,
                                         resultado |-> select_entidade(
                                             ledger, documento, Tipo(documento)),
                                         ret |-> "none"]]
    /\ UNCHANGED <<runvars, poolvars, limvars, logvars, entrada, saida, bg>>

(* The thread's write transaction, which the database runs one at a time:
   the UPDATE of the row it selected, or the INSERT when it had selected
   none, then the history row and the commit; an INSERT that raises ends in
   the except branch, which returns False. *)
ConnWrite ==
    /\ pc = "threads"
    /\ \E t \in Threads :
         LET documento == conn[t].documento
             raises == conn[t].resultado = 0
                           /\ integrity_error(ledger, documento, Tipo(documento))
         IN  /\ conn[t].st = "selected"
             /\ conn' = [conn EXCEPT ![t].st = "done",
                                     ![t].ret = IF raises THEN "False" ELSE "True"]
             /\ IF raises
                THEN UNCHANGED <<ledger, historico>>
                ELSE /\ ledger' = salvar_entidade_devedor(
                            ledger, documento, Tipo(documento), 1, 0, 0, "criado", 0, 0)
                     /\ historico' = salvar_historico(historico, ledger, documento,
                                                      Tipo(documento))
    /\ UNCHANGED <<persons, deals, extract, remote, pc, variant, run, todo, sweep, calls,
                   op, pre, snap>>
    /\ UNCHANGED <<poolvars, limvars, logvars, entrada, saida, bg>>

(* The threads of a run in front of a ledger that holds any of the documents,
   each saved once. *)
InitThreads ==
    /\ extract = {} /\ persons = <<>> /\ deals = <<>>
    /\ variant = "optimized" /\ remote = "reliable"
    /\ pc = "threads" /\ run = 1 /\ todo = {} /\ sweep = <<>>
    /\ calls = <<>> /\ op = NoOp /\ pre = <<>> /\ snap = <<>>
    /\ tasks = <<>> /\ should_stop = FALSE /\ lote = 0 /\ pipeline_ids = <<>>
    /\ progresso = <<>> /\ erros = <<>>
    /\ now = 0 /\ requests = <<>> /\ last_429_time = 0 /\ lock = 0
    /\ thr = <<>> /\ grants = <<>>
    /\ log_processamentos = <<>> /\ current_processing_id = 0 /\ retorno = "none"
    /\ saida = NoOut /\ bg = BgIdle
    /\ \E S \in SUBSET Docs :
         /\ entrada = [kind |-> "ledger", presentes |-> S]
         /\ ledger = ledger_of(S) /\ historico = historico_of(S)
    /\ conn = [t \in Threads |-> IdleConn]

NextThreads == ConnSelect \/ ConnWrite

SpecThreads == InitThreads /\ [][NextThreads]_vars

(* ---- _parse_txt_blocks over lines of every record type ---- *)

(* The lines of a file by record type: header, debtor, reference, instalment,
   guarantee and trailer. *)
Registros == {"00", "01", "05", "15", "25", "99"}
LinhasDeBloco == [registro : Registros, cpf_cnpj : {<<1>>}, tipo_pessoa : {"01"}]

ParseTxtBlocks ==
    /\ pc = "blocks" /\ saida = NoOut
    /\ saida' = [kind |-> "blocks", blocks |-> parse_txt_blocks(entrada.lines)]
    /\ UNCHANGED <<runvars, poolvars, limvars, logvars, entrada, bg, conn>>

(* Any file of up to MaxLinhas lines of these types. *)
InitBlocks ==
    /\ InitFun /\ pc = "blocks"
    /\ entrada \in [lines : UNION {[1 .. n -> LinhasDeBloco] : n \in 0 .. MaxLinhas}]

SpecBlocks == InitBlocks /\ [][ParseTxtBlocks]_vars

(* C1: when the only deal matched to a debtor of the extract sits in the
   Judicial pipeline, neither the primary nor the optimized handler of an
   existing person issues update_deal or mark_deal_as_lost for that deal,
   whatever its status. *)
C1_JudicialInvariance ==
    (DebtorStep /\ op.person # 0) =>
        \A i \in Matched :
            (Matched = {i} /\ pre[i].pipeline_id = PIPELINE_JUDICIAL_ID)
                => CallsOn(i) = {}

(* C2: the removal rules of both processors issue no call for a deal of the
   Judicial or the Formalization pipeline whose document left the extract, in
   any stage and status, and the deal stays as it was. *)
C2_ProtectedPipelines ==
    (op.kind = "removal"
        /\ op.deal.pipeline_id \in {PIPELINE_JUDICIAL_ID,
                                    PIPELINE_BASE_NOVA_FORMALIZACAO_ID})
        => (calls = <<>> /\ deals = pre)

C2_Witness ==
    /\ op.kind = "removal" /\ op.variant = "optimized"
    /\ op.deal.pipeline_id = PIPELINE_BASE_NOVA_FORMALIZACAO_ID
    /\ op.deal.status = "open" /\ op.deal.doc \notin extract
    /\ calls = <<>>

(* C3: the removal rules of both processors issue no call for a deal of SDR or
   NEGOCIACAO that sits in one of the four exception stages, whatever its
   status; in particular it is not marked lost. *)
C3_ExceptionStages ==
    (op.kind = "removal"
        /\ op.deal.pipeline_id \in {PIPELINE_BASE_NOVA_SDR_ID,
                                    PIPELINE_BASE_NOVA_NEGOCIACAO_ID}
        /\ op.deal.stage_id \in {STAGE_ENVIAR_MINUTA_BOLETO_ID,
                                 STAGE_AGUARDANDO_PAGAMENTO_ID,
                                 STAGE_ACOMPANHAMENTO_ACORDO_ID,
                                 STAGE_BOLETO_PAGO_ID})
        => (calls = <<>> /\ deals = pre
            /\ deals[op.deal.id].status = op.deal.status)

C3_Witness ==
    /\ op.kind = "removal" /\ op.variant = "primary"
    /\ op.deal.pipeline_id = PIPELINE_BASE_NOVA_NEGOCIACAO_ID
    /\ op.deal.stage_id = STAGE_BOLETO_PAGO_ID
    /\ op.deal.status = "open"
    /\ deals[op.deal.id].status = "open"

(* C4: after the second run of process_inadimplentes_from_txt on the same
   extract every remote deal has the pipeline, stage and status it had after
   the first run, the deals of absent documents included. *)
C4_Idempotence ==
    (op.kind = "finish" /\ op.run = 2 /\ variant = "primary") =>
        /\ Len(deals) = Len(snap)
        /\ \A i \in DOMAIN snap : SameDeal(deals[i], snap[i])

(* C5: entidades_devedores never holds two rows with the same (documento,
   tipo_pessoa); a successful save of a key without a row inserts the row with
   version 1, and a successful save of a key with a row raises its version by
   exactly 1 and leaves the number of rows as it was. *)
C5_LedgerVersioning ==
    /\ \A i, j \in DOMAIN ledger :
          (ledger[i].documento = ledger[j].documento
              /\ ledger[i].tipo_pessoa = ledger[j].tipo_pessoa) => i = j
    /\ (op.kind = "salvar" /\ op.ok) =>
          LET rows == RowsOf(ledger, op.documento, op.tipo_pessoa)
          IN  /\ Cardinality(rows) = 1
              /\ \A i \in rows : ledger[i].version = op.version_antes + 1
              /\ Len(ledger) = op.linhas_antes
                                 + (IF op.version_antes = 0 THEN 1 ELSE 0)

C5_Witness ==
    /\ op.kind = "salvar" /\ op.ok /\ op.version_antes = 1
    /\ Len(ledger) = 2
    /\ \E i \in DOMAIN ledger : ledger[i].version = 2

(* C6: when the person search or a deal listing of a debtor fails, the
   per-extract pass issues no create_person for a document that has a remote
   person and no create_deal for a person that has a deal of that document in
   a managed pipeline. *)
C6_NoDuplication ==
    DebtorStep =>
        /\ \A k \in CallsOf("create_person") :
              calls[k].title \notin Range(op.persons)
        /\ \A k \in CallsOf("create_deal") :
              ~\E i \in DOMAIN pre :
                  /\ pre[i].person = calls[k].person
                  /\ pre[i].doc = op.doc
                  /\ pre[i].pipeline_id \in base_nova_pipelines

(* C7: for a PF document of the extract without a remote person, the primary
   and the optimized pass each issue exactly one create_person and exactly one
   create_deal, the new deal is open in SDR at NOVAS COBRANCAS, and the ledger
   gains exactly one row for the document, with status_operacao 'criado' and
   version 1. *)
C7_NewDebtor ==
    (DebtorStep /\ Tipo(op.doc) = "PF" /\ op.doc \notin Range(op.persons)) =>
        /\ Cardinality(CallsOf("create_person")) = 1
        /\ Cardinality(CallsOf("create_deal")) = 1
        /\ Len(deals) = Len(pre) + 1
        /\ deals[Len(deals)].pipeline_id = PIPELINE_BASE_NOVA_SDR_ID
        /\ deals[Len(deals)].stage_id = STAGE_NOVAS_COBRANCAS_ID
        /\ deals[Len(deals)].status = "open"
        /\ Cardinality(RowsOf(ledger, op.doc, "PF")) = 1
        /\ \A i \in RowsOf(ledger, op.doc, "PF") :
              ledger[i].status_operacao = "criado" /\ ledger[i].version = 1

(* C8: for a matched deal in SDR, NEGOCIACAO or FORMALIZACAO the primary and
   the optimized pass each issue an update that carries the refreshed fields
   and neither pipeline nor stage, and that sets status = open exactly when
   the deal was won or lost; the deal ends open in the pipeline and stage it
   was in. *)
C8_ManagedDealUpdated ==
    (DebtorStep /\ op.person # 0) =>
        \A i \in Matched :
            pre[i].pipeline_id \in base_nova_pipelines =>
                /\ \E k \in CallsOn(i) :
                      /\ calls[k].op = "update_deal" /\ calls[k].fields
                      /\ calls[k].pipeline_id = 0 /\ calls[k].stage_id = 0
                      /\ (calls[k].status = "open")
                            <=> (pre[i].status \in {"won", "lost"})
                /\ deals[i].pipeline_id = pre[i].pipeline_id
                /\ deals[i].stage_id = pre[i].stage_id
                /\ deals[i].status = "open"

(* C9: for a matched deal in a pipeline that is neither managed nor Judicial,
   _handle_existing_person_from_txt issues exactly one call, an update_deal
   that sets pipeline SDR, stage NOVAS COBRANCAS and status open and carries
   the refreshed fields, whatever the deal's status was. *)
C9_OtherPipelineMoved ==
    (op.kind = "primary" /\ op.person # 0) =>
        \A i \in Matched :
            (pre[i].pipeline_id \notin base_nova_pipelines
                /\ pre[i].pipeline_id # PIPELINE_JUDICIAL_ID) =>
                /\ Cardinality(CallsOn(i)) = 1
                /\ \A k \in CallsOn(i) :
                      /\ calls[k].op = "update_deal" /\ calls[k].fields
                      /\ calls[k].pipeline_id = PIPELINE_BASE_NOVA_SDR_ID
                      /\ calls[k].stage_id = STAGE_NOVAS_COBRANCAS_ID
                      /\ calls[k].status = "open"
                /\ deals[i].pipeline_id = PIPELINE_BASE_NOVA_SDR_ID
                /\ deals[i].stage_id = STAGE_NOVAS_COBRANCAS_ID
                /\ deals[i].status = "open"

C9_Witness ==
    /\ op.kind = "primary" /\ op.person # 0
    /\ \E i \in Matched :
          /\ pre[i].pipeline_id \in OutrasBases /\ pre[i].status = "won"
          /\ deals[i].pipeline_id = PIPELINE_BASE_NOVA_SDR_ID
          /\ deals[i].status = "open"

(* C10: in _handle_existing_person_from_txt every matched deal outside the
   Judicial pipeline gets its update whether or not the debtor also has a
   Judicial deal (a move to SDR for another pipeline, an update in place for a
   managed one), and exactly one deal is created, in SDR at NOVAS COBRANCAS,
   when no matched deal lies outside the Judicial pipeline, none otherwise. *)
C10_IndependentEvaluation ==
    (op.kind = "primary" /\ op.person # 0) =>
        LET naoJudiciais ==
                {i \in Matched : pre[i].pipeline_id # PIPELINE_JUDICIAL_ID}
        IN  /\ \A i \in naoJudiciais :
                  \E k \in CallsOn(i) :
                      /\ calls[k].op = "update_deal"
                      /\ calls[k].pipeline_id =
                            (IF pre[i].pipeline_id \in base_nova_pipelines
                             THEN 0 ELSE PIPELINE_BASE_NOVA_SDR_ID)
            /\ Cardinality(CallsOf("create_deal"))
                  = (IF naoJudiciais = {} THEN 1 ELSE 0)
            /\ \A k \in CallsOf("create_deal") :
                  /\ calls[k].person = op.person
                  /\ calls[k].pipeline_id = PIPELINE_BASE_NOVA_SDR_ID
                  /\ calls[k].stage_id = STAGE_NOVAS_COBRANCAS_ID

C10_Witness ==
    /\ op.kind = "primary" /\ op.person # 0
    /\ \E i, j \in Matched :
          /\ pre[i].pipeline_id = PIPELINE_JUDICIAL_ID
          /\ pre[j].pipeline_id \in OutrasBases
          /\ deals[j].pipeline_id = PIPELINE_BASE_NOVA_SDR_ID
    /\ CallsOf("create_deal") = {}

(* C11: for a deal of SDR or NEGOCIACAO outside the exception stages whose
   document left the extract, the removal rules of both processors reopen it
   (status open, stage INICIAR COBRANCA) when it is lost and mark it lost
   otherwise. *)
C11_RemovalOrdinaryStage ==
    (op.kind = "removal" /\ op.fault = "none"
        /\ op.deal.pipeline_id \in {PIPELINE_BASE_NOVA_SDR_ID,
                                    PIPELINE_BASE_NOVA_NEGOCIACAO_ID}
        /\ op.deal.stage_id \notin {STAGE_ENVIAR_MINUTA_BOLETO_ID,
                                    STAGE_AGUARDANDO_PAGAMENTO_ID,
                                    STAGE_ACOMPANHAMENTO_ACORDO_ID,
                                    STAGE_BOLETO_PAGO_ID})
        => IF op.deal.status = "lost"
           THEN /\ Len(calls) = 1 /\ calls[1].op = "update_deal"
                /\ calls[1].id = op.deal.id /\ calls[1].status = "open"
                /\ calls[1].stage_id = STAGE_INICIAR_COBRANCA_ID
                /\ deals[op.deal.id].status = "open"
                /\ deals[op.deal.id].stage_id = STAGE_INICIAR_COBRANCA_ID
           ELSE /\ Len(calls) = 1 /\ calls[1].op = "mark_deal_as_lost"
                /\ calls[1].id = op.deal.id
                /\ deals[op.deal.id].status = "lost"


(* C12: the removal sweep never treats as removed a deal of a debtor that is
   present in the extract: no removal step handles a deal whose title carries,
   with or without its leading zeros, the document of a debtor of the
   extract. *)
C12_PresentDebtorNotRemoved ==
    op.kind = "removal" => op.deal.doc \notin extract


(* C13: the two passes are never interleaved: while the removal pass is at
   work (fetching the managed pipelines or applying the removal rules) no
   reconciliation task is queued or running and the extract is the one the
   run started with; a removal-pass call finds no task pending, and a
   reconciliation call is made only before the fetch has begun. *)
C13_PassOrdering ==
    /\ pc \in {"fetch", "sweep"} => (Pending(tasks) = {} /\ extract = Itens)
    /\ (op.kind = "call" /\ op.by = 0) => op.pending = {}
    /\ (op.kind = "call" /\ op.by # 0) => Len(pipeline_ids) = 3

C13_Witness ==
    /\ pc = "sweep" /\ op.kind = "call" /\ op.by = 0
    /\ \A i \in Itens : tasks[i].st = "done"


(* C15: every remote call of a reconciliation or of the sweep is preceded by
   its own rate-limit acquisition: when a thread starts a remote call, the
   calls it has started, this one included, do not exceed the tokens it has
   acquired. *)
C15_TokenBeforeCall ==
    op.kind = "call" => op.calls <= op.tokens


(* C17: at every moment at most max_concurrent_requests reconciliation tasks
   are executing, every task queued or executing belongs to the batch in
   progress, and a task of a later batch has started only if every task of
   every earlier batch has finished. *)
C17_BoundedConcurrency ==
    /\ Cardinality(Executing(tasks)) <= MaxWorkers
    /\ \A i \in Pending(tasks) : create_batches(i) = lote
    /\ \A i, j \in Itens :
           (create_batches(i) < create_batches(j) /\ tasks[j].st # "unsubmitted")
               => tasks[i].st = "done"

C17_Witness ==
    /\ Cardinality(Executing(tasks)) = MaxWorkers
    /\ \E i \in Itens : tasks[i].st = "queued"
    /\ \E i \in Itens : tasks[i].st = "running" /\ tasks[i].calls >= 1


(* C18: a reconciliation that ends with a transient failure of one of its
   remote calls has been attempted max_retries + 1 times: transient failures
   are retried, and only exhausted retries end the reconciliation. *)
C18_TransientRetried ==
    (op.kind = "end" /\ op.falha) => op.tentativas = max_retries + 1


(* C19: an exception raised while one debtor is processed is recorded as an
   error of the run and aborts nothing: a run that ends without having been
   stopped has processed every debtor of every batch and has fetched the
   managed pipelines for its removal sweep. *)
C19_FailureIsolation ==
    /\ \A i \in Itens : tasks[i].raised => tasks[i].erro
    /\ (pc = "done" /\ ~should_stop) =>
           /\ \A i \in Itens : tasks[i].st = "done"
           /\ pipeline_ids = <<>>

C19_Witness ==
    /\ pc = "done" /\ ~should_stop
    /\ tasks[1].raised /\ tasks[1].erro
    /\ \A i \in Itens : tasks[i].st = "done"
    /\ op.kind = "call" /\ op.by = 0


(* C20: once stop_processing has set the stop flag the run starts no remote
   call: not a task already running, not a task submitted before the flag was
   set, not the removal sweep nor its fetch of the managed pipelines. *)
C20_CooperativeCancellation ==
    op.kind = "call" => ~op.stop


(* C14: once a worker has observed a 429 the shared cooldown timestamp is at
   least the time of that observation, and no worker starts a remote call
   less than the cooldown after the latest 429 observed. *)
C14_CooldownPropagation ==
    /\ \A w \in DOMAIN thr : thr[w].visto > 0 => last_429_time >= thr[w].visto
    /\ (op.kind = "call" /\ op.visto > 0) => op.at - op.visto >= COOLDOWN

(* C16: in every rolling window of 60 seconds wait_if_needed returns at most
   requests_per_minute times: the returns of the 60 seconds up to the latest
   one never number more than the quota. *)
C16_RollingQuota ==
    Len(grants) <= RequestsPerMinute


(* C21: a run the stop flag has cut short ends with its row of
   log_processamentos in a status other than that of a completed run, and with
   every ledger row written before the cut still there. *)
C21_CancelledIncomplete ==
    (pc = "done" /\ op.kind = "run" /\ op.cortado /\ op.finalizacoes > 0) =>
        /\ log_processamentos[current_processing_id].status # "concluido"
        /\ Len(ledger) >= op.salvas

(* C22: a run that has ended has called finalizar_processamento exactly once
   on the row it opened, no row is left 'processando', and no row has been
   closed twice. *)
C22_ClosedOnce ==
    (pc = "done" /\ op.kind = "run") =>
        /\ current_processing_id # 0 => op.finalizacoes = 1
        /\ \A i \in DOMAIN log_processamentos :
               log_processamentos[i].status \in {"concluido", "erro"}

(* C23: a run that could not read its extract or could not open its row ends
   without having issued a remote mutation, with a row of status 'erro'
   carrying the message, and with the failure propagated to its caller. *)
C23_FatalErrors ==
    (pc = "done" /\ op.kind = "run" /\ op.fatal # "none") =>
        /\ ~op.mutou
        /\ \E i \in DOMAIN log_processamentos :
               /\ log_processamentos[i].status = "erro"
               /\ log_processamentos[i].mensagem_erro # ""
        /\ retorno = "raise"


(* C24: the history is append-only and complete: a successful save leaves the
   history rows it found as they were and appends exactly one row, 'criado'
   with no before-snapshot after an insert and 'atualizado' with the previous
   row after an update; the history rows of an entity number its version. *)
C24_AppendOnlyHistory ==
    /\ \A i \in DOMAIN ledger :
           Cardinality({k \in DOMAIN historico : historico[k].entidade_id = i})
               = ledger[i].version
    /\ (op.kind = "salvar" /\ op.ok) =>
           /\ Len(historico) = Len(op.historico_antes) + 1
           /\ SubSeq(historico, 1, Len(op.historico_antes)) = op.historico_antes
           /\ historico[Len(historico)].acao
                  = (IF op.version_antes = 0 THEN "criado" ELSE "atualizado")
           /\ historico[Len(historico)].dados_anteriores = op.version_antes


(* C25: the row a reconciliation saves tells what was done: 'atualizado' when
   the person was found on the remote, 'criado' only when a person was created
   in this reconciliation and its id is stored in the row, and the deal
   column holds a deal id or none (0). *)
C25_LedgerRecordsOutcome ==
    (op.kind \in {"primary", "optimized"} /\ ledger # op.ledger) =>
        LET i == select_entidade(ledger, op.doc, Tipo(op.doc))
            criada == Len(persons) > Len(op.persons)
        IN  /\ i # 0
            /\ op.person # 0 => ledger[i].status_operacao = "atualizado"
            /\ ledger[i].status_operacao = "criado" =>
                   /\ criada
                   /\ Len(persons) \in {ledger[i].pipedrive_person_id,
                                        ledger[i].pipedrive_org_id}
            /\ ledger[i].pipedrive_deal_id \in 0 .. Len(deals)


(* C26: the ledger has one writer: at no moment are two calls of
   salvar_entidade_devedor in progress. *)
C26_SingleLedgerWriter == Cardinality(Saving(tasks)) <= 1


(* The normalized document is the raw one at the length of its type: its last
   digits when the raw one is as long or longer, zeros in front of it when it
   is shorter; normalizing it again changes nothing; the client's first
   variant is the same string. *)
Normalized(raw, n, out) ==
    /\ Len(out.normalized) = n
    /\ \A i \in 1 .. n :
           out.normalized[i] = IF i + Len(raw) - n >= 1 THEN raw[i + Len(raw) - n]
                               ELSE 0
    /\ out.again = out.normalized
    /\ out.variants # <<>> /\ out.variants[1] = out.normalized

(* C27: every digit string (one digit or more; a blank field is no document
   and comes back empty) is normalized to the canonical length of its type
   (11 for PF, 14 for PJ), to its last digits when longer and zero-padded on
   the left when shorter; the normalization is idempotent and equals the first
   variant of the client's normalization. *)
C27_Normalization ==
    (saida.kind = "normalize" /\ entrada.document # <<>>) =>
        Normalized(entrada.document, target_length(entrada.person_type), saida)

C27_Witness ==
    /\ saida.kind = "normalize" /\ entrada.person_type = "PJ"
    /\ Len(entrada.document) > CNPJ_LEN /\ entrada.document[1] = 1
    /\ saida.normalized[1] = 0 /\ Len(saida.variants) = 2


(* C28: up to 90 days overdue the delay tag is the low one (121), beyond 90
   the high one (122), in the consolidated record and in the TAG_ATRASO value
   the update of the deal sends, which is the list of that one option and is
   never left out. *)
C28_DelayTagBoundary ==
    saida.kind = "deal" =>
        LET tag == IF entrada.dias <= 90 THEN 121 ELSE 122
        IN  /\ saida.tag_atraso = tag
            /\ ~saida.custom_fields.omitted
            /\ saida.custom_fields.TAG_ATRASO.t = "list"
            /\ saida.custom_fields.TAG_ATRASO.v = <<tag>>

C28_Witness ==
    /\ saida.kind = "deal" /\ entrada.dias = 90
    /\ saida.tag_atraso = 121 /\ saida.deal_data.TAG_ATRASO.v = <<121>>


(* C29: a None or empty value of any field formats to None (the field is
   left out), and for TAG_ATRASO the value 0 is not absent: it formats to the
   low tag. *)
C29_AbsentValues ==
    saida.kind = "format" =>
        /\ (entrada.value.t = "None"
               \/ (entrada.value.t = "str" /\ entrada.value.v = <<>>))
           => saida.value.t = "None"
        /\ (entrada.field_name = "TAG_ATRASO" /\ entrada.value.t = "int"
               /\ entrada.value.v = 0)
           => (saida.value.t = "list" /\ saida.value.v = <<121>>)


(* C30: the consolidated list holds at most one record for each document and
   type of person, however many blocks of the extract carry them. *)
C30_OneRecordPerIdentifier ==
    saida.kind = "txt" =>
        \A i, j \in DOMAIN saida.consolidated_data :
            (saida.consolidated_data[i].cpf_cnpj = saida.consolidated_data[j].cpf_cnpj
                /\ saida.consolidated_data[i].tipo_pessoa
                       = saida.consolidated_data[j].tipo_pessoa)
            => i = j


(* C31: every record of the consolidated list has a type PF or PJ and a
   document of digits only, 11 of them for PF and 14 for PJ; the blocks whose
   type code is neither, or whose identifier has no digit, give no record, and
   the remote is searched for the records only. *)
C31_OnlyValidRecords ==
    saida.kind = "txt" =>
        LET validas == SelectSeq(entrada.lines,
                           LAMBDA l : /\ l.registro = "01"
                                      /\ l.tipo_pessoa \in {"01", "02"}
                                      /\ \E i \in DOMAIN l.cpf_cnpj : l.cpf_cnpj[i] \in 0 .. 9)
        IN  /\ \A k \in DOMAIN saida.consolidated_data :
                   LET r == saida.consolidated_data[k]
                   IN  /\ r.tipo_pessoa \in {"PF", "PJ"}
                       /\ Len(r.cpf_cnpj) = (IF r.tipo_pessoa = "PF" THEN 11 ELSE 14)
                       /\ \A i \in DOMAIN r.cpf_cnpj : r.cpf_cnpj[i] \in 0 .. 9
            /\ Len(saida.consolidated_data) = Len(validas)
            /\ saida.buscas = saida.consolidated_data

C31_Witness ==
    /\ saida.kind = "txt" /\ Len(entrada.lines) = 3
    /\ \A i \in 1 .. 3 : entrada.lines[i].registro = "01"
    /\ entrada.lines[1].tipo_pessoa = "" /\ entrada.lines[1].cpf_cnpj = <<1>>
    /\ entrada.lines[2].tipo_pessoa = "01" /\ entrada.lines[2].cpf_cnpj = <<46>>
    /\ entrada.lines[3].tipo_pessoa = "02" /\ entrada.lines[3].cpf_cnpj = <<46, 1>>
    /\ Len(saida.buscas) = 1


(* C32: progress_callback is called once after each batch the run went
   through, with the count of processed debtors and the length of the
   extract; the count grows strictly from one call to the next, never passes
   the length of the extract, and is the length of the extract at the last
   call of a run that was not cancelled. *)
C32_ProgressReporting ==
    (pc \in {"lote", "submit", "collect", "fetch", "sweep", "done"} /\ lote >= 1) =>
        /\ Len(progresso) = lote - 1
        /\ \A k \in DOMAIN progresso :
               /\ progresso[k][2] = MaxItens
               /\ progresso[k][1] <= MaxItens
               /\ progresso[k][1] > (IF k = 1 THEN 0 ELSE progresso[k - 1][1])
        /\ (pc \in {"fetch", "sweep", "done"} /\ ~should_stop) =>
               (progresso # <<>> /\ progresso[Len(progresso)][1] = MaxItens)

C32_Witness ==
    /\ pc = "done" /\ ~should_stop /\ Len(progresso) = create_batches(MaxItens)
    /\ Len(progresso) >= 2 /\ progresso[1][1] = BatchSize
    /\ progresso[Len(progresso)][1] = MaxItens


(* C33: an empty removal sweep is not an error: when the optimized sweep
   selects no deal (every deal of the managed pipelines is in the extract, or
   there is none), it issues no mutation and appends nothing to the run's
   error list. *)
C33_EmptySweepNoError ==
    [][(pc = "fetch" /\ variant = "optimized" /\ pc' = "sweep" /\ sweep' = <<>>) =>
           (erros' = erros /\ deals' = deals /\ calls' = calls)]_vars

(* C34: background resume from checkpoint: when a run of extract F saved a
   checkpoint with last_processed_index = k and was interrupted, the next
   process_file_background(F) starts at item k, and a checkpoint written for
   another extract is ignored (the run starts at item 0). *)
C34_ResumeFromCheckpoint ==
    [][(pc = "bg" /\ bg.st = "idle" /\ bg'.st = "items") =>
           bg'.start_index =
               (IF bg.config_file.existe /\ bg.config_file.status = "processing"
                   /\ bg.config_file.arquivo = bg'.txt_path
                THEN bg.config_file.last_processed_index
                ELSE 0)]_vars

(* C35: the optimized pass refines the primary pass: for every debtor and
   remote state, when no request fails, the optimized per-extract step issues
   the mutations the primary step issues on the same debtor, person and
   listing. *)
C35_OptimizedRefinesPrimary ==
    (op.kind = "optimized" /\ op.fault = "none") =>
        \E org \in Orgs :
            Range(calls) =
                Range(IF op.person # 0
                      THEN handle_existing_person_from_txt(
                               pre, op.persons, op.person, op.doc, op.listed, "none", org)
                      ELSE handle_new_person_from_txt_with_backup(
                               pre, op.persons, op.doc, "none"))

(* C36: a closed run is never touched by a later run: when a later call on
   the same processor instance fails reading the extract, before it opens a
   row of its own, its except clause leaves the closed rows of
   log_processamentos as they were. *)
C36_ClosedRunUntouched ==
    [][(pc = "except" /\ run > 1 /\ op.fatal = "leitura") =>
           \A id \in DOMAIN log_processamentos :
               log_processamentos[id].status # "processando" =>
                   log_processamentos'[id] = log_processamentos[id]]_vars

(* C37: the retry contract: execute_with_retry calls func at most
   max_retries + 1 times, returns the result of the first call that does not
   raise and calls no more, raises the last exception when every call raised,
   sleeps only between attempts, for min(base_delay * 2^attempt, max_delay)
   seconds after a generic failure and min(60 * (attempt + 1), 300) after a
   429-class failure, and the latter is the longer delay of any attempt. *)
C37_RetryContract ==
    (pc = "retry" /\ saida # NoOut) =>
        LET d == entrada.desfechos
            n == saida.chamadas
        IN  /\ n <= max_retries + 1
            /\ \A k \in 1 .. n - 1 : d[k] # "ok"
            /\ saida.fim = "return" => (d[n] = "ok" /\ saida.valor = n)
            /\ saida.fim = "raise" =>
                   (n = max_retries + 1 /\ d[n] # "ok" /\ saida.valor = n)
            /\ saida.fim = "none" => (n <= max_retries /\ d[n] # "ok")
            /\ Len(saida.sleeps) = (IF saida.fim = "none" THEN n ELSE n - 1)
            /\ \A k \in DOMAIN saida.sleeps :
                   saida.sleeps[k] =
                       IF d[k] \in {"429", "limit"}
                       THEN Min({60 * k, 300})
                       ELSE Min({2 ^ (k - 1), 120})
            /\ \A a \in 0 .. max_retries :
                   delay_rate_limit(a) > delay_backoff(a)

C37_Witness ==
    /\ pc = "retry" /\ saida # NoOut /\ saida.fim = "raise"
    /\ saida.chamadas = max_retries + 1
    /\ saida.sleeps = <<60, 2, 180>>

(* C38: batching is a partition: for a batch size n >= 1 the batches are
   consecutive non-empty slices of the data, each of n items except possibly
   the last, and their concatenation in order is the data; so a run that is
   not stopped submits every consolidated debtor exactly once, in order. *)
C38_BatchingPartition ==
    (pc = "batches" /\ saida # NoOut) =>
        LET data == entrada.data
            n == entrada.batch_size
            bs == saida.batches
        IN  /\ Len(bs) = (Len(data) + n - 1) \div n
            /\ \A k \in DOMAIN bs :
                   /\ bs[k] # <<>>
                   /\ k < Len(bs) => Len(bs[k]) = n
                   /\ Len(bs[k]) <= n
                   /\ \A j \in DOMAIN bs[k] : bs[k][j] = data[(k - 1) * n + j]
            /\ saida.submetidos = data

C38_Witness ==
    /\ pc = "batches" /\ saida # NoOut
    /\ Len(entrada.data) = MaxDados /\ entrada.batch_size = 2
    /\ Len(saida.batches) = (MaxDados + 1) \div 2
    /\ Len(saida.batches[Len(saida.batches)]) = 2 - (MaxDados % 2)

(* C39: concurrent saves of one key both take effect: however the threads
   that save the same (documento, tipo_pessoa) interleave, in the ledger or
   not yet in it, every call returns True, exactly one row holds the key
   afterwards, its version is the number of saves, and the history holds one
   row per save. *)
C39_ConcurrentSaves ==
    (pc = "threads" /\ \A t \in Threads : conn[t].st = "done") =>
        \A d \in Docs :
            (\A t \in Threads : conn[t].documento = d) =>
                LET antes == IF d \in entrada.presentes THEN 1 ELSE 0
                    n == antes + Cardinality(Threads)
                    rows == RowsOf(ledger, d, Tipo(d))
                IN  /\ \A t \in Threads : conn[t].ret = "True"
                    /\ Cardinality(rows) = 1
                    /\ \A i \in rows :
                           /\ ledger[i].version = n
                           /\ Cardinality({k \in DOMAIN historico :
                                              historico[k].entidade_id = i}) = n

(* C40: block grouping: _parse_txt_blocks yields one block per line of type
   01, in file order; every later line up to the next line of type 01 belongs
   to that block, except the lines of type 00 and 99; the lines before the
   first line of type 01 belong to no block. *)
C40_BlockGrouping ==
    (pc = "blocks" /\ saida # NoOut) =>
        LET lines == entrada.lines
            starts == SelectSeq([i \in 1 .. Len(lines) |-> i],
                                LAMBDA i : lines[i].registro = "01")
            until(k) == IF k = Len(starts) THEN Len(lines) ELSE starts[k + 1] - 1
        IN  /\ Len(saida.blocks) = Len(starts)
            /\ \A k \in DOMAIN starts :
                   saida.blocks[k] =
                       SelectSeq(SubSeq(lines, starts[k], until(k)),
                                 LAMBDA line : line.registro \notin {"00", "99"})

====
